---- MODULE Spec2Model ----
(***************************************************************************)
(* A model of MCPHawk's capture pipeline and broadcast hub.                *)
(*                                                                         *)
(*   - the broadcast hub: mcphawk/web/broadcaster.py, the WebSocket        *)
(*     endpoint of mcphawk/web/server.py and the two ways a publisher      *)
(*     starts a broadcast (mcphawk/sniffer.py _broadcast_in_any_loop);     *)
(*   - the transport tracker: mcphawk/transport_detector.py;               *)
(*   - the TCP stream reassembler and the packet callback:                 *)
(*     mcphawk/tcp_reassembly.py and mcphawk/sniffer.py.                   *)
(***************************************************************************)
EXTENDS Integers, Sequences, FiniteSets, TLC

(***************************************************************************)
(* Bounds                                                                  *)
(***************************************************************************)
MaxSubscribers == 3

MaxRecords == 2

Subscribers == 1..MaxSubscribers

Records == 1..MaxRecords

MaxClients == 2

MaxPackets == 3

\* an endpoint is an (ip, port) pair; the server's pair compares below the clients'
Server == 0

Clients == 1..MaxClients

Endpoints == {Server} \cup Clients

(***************************************************************************)
(* Generic sequence helpers                                                *)
(***************************************************************************)
Range(s) == {s[i] : i \in 1..Len(s)}

Count(s, x) == Cardinality({i \in 1..Len(s) : s[i] = x})

\* position of the first occurrence of x in s, 0 when absent
IndexOf(s, x) == IF x \in Range(s) THEN CHOOSE i \in 1..Len(s) : s[i] = x /\ \A j \in 1..(i-1) : s[j] # x ELSE 0

\* list.remove(x): drops the first occurrence of x
ListRemove(s, x) == IF x \in Range(s) THEN SubSeq(s, 1, IndexOf(s, x) - 1) \o SubSeq(s, IndexOf(s, x) + 1, Len(s)) ELSE s

VARIABLES
    active_clients,   \* broadcaster.active_clients: the list of live WebSockets
    ws_state,         \* per WebSocket: "unconnected", "open", "broken" (a send has raised), "closed" (endpoint returned)
    task,             \* per published record: the broadcast_new_log coroutine started for it
    sendq,            \* per WebSocket: the sends awaiting completion, in the order they were started
    received,         \* per WebSocket: the records its peer has received, in order
    published,        \* number of records published so far; record r is the r-th publish
    pub_pc,           \* the publisher: "idle" or "blocked" (inside asyncio.run)
    has_loop,         \* whether the publisher's thread has a running event loop
    nstart            \* history: per record, the number of sockets accepted when its coroutine started

VARIABLES
    streams,            \* TCPStreamReassembler.streams: StreamKey -> HTTPStream
    transport_tracker,  \* TCPStreamReassembler.transport_tracker: the two dicts of TransportTracker
    records,            \* the rows written by log_message, in order
    crashed,            \* an exception has left packet_callback
    npackets,           \* packets handed to packet_callback so far
    last_call,          \* history: the last operation and its arguments
    emitted,            \* history: every message process_packet has returned, in order
    response,           \* the HTTP response on the wire (reassembly of one response)
    sent                \* how many of its bytes have been delivered

hubVars == <<active_clients, ws_state, task, sendq, received, published, pub_pc, has_loop, nstart>>

capVars == <<streams, transport_tracker, records, crashed, npackets, last_call, emitted, response, sent>>

VARIABLES
    buffer_len,         \* len(HTTPStream.buffer) of one connection whose response headers have been parsed
    ws_buffer_len       \* len(ws_buffers[key]) of one WebSocket connection

bufVars == <<buffer_len, ws_buffer_len>>

VARIABLES
    child_stdout,       \* history: the bytes the child has written to its stdout, in order
    forwarded,          \* the characters _forward_stdout has written to the wrapper's stdout
    stdout_buffer,      \* the local variable buffer of _forward_stdout
    stdio_records,      \* the rows the wrapper has written with log_message
    pendingcr,          \* the text layer of proc.stdout holds back a "\r" it has read
    stdout_thread       \* the _forward_stdout thread: "reading" or "stopped"

wrapVars == <<child_stdout, forwarded, stdout_buffer, stdio_records, pendingcr, stdout_thread>>

VARIABLES
    wrapper,            \* the main thread of the wrapper: "starting", "waiting" (in proc.wait) or "exited"
    child,              \* the child process: "none", "running" or "exited"
    returncode,         \* the child's exit code once it has exited, else NoCode
    exit_status,        \* the status the wrapper process exits with, else NoCode
    child_signals,      \* the signals the wrapper has sent to the child
    signalled           \* history: the signal the wrapper has received, else "none"

lifeVars == <<wrapper, child, returncode, exit_status, child_signals, signalled>>

VARIABLES
    server_registry,    \* _server_registry: the connection ids that have a server info cached
    metadata            \* the metadata column of the rows of records, in the same order

regVars == <<server_registry, metadata>>

VARIABLES
    sniffer,            \* the capture engine: "idle" before start_sniffer, then "sniffing"
    cli,                \* the options of the command that started the capture, NoCommand without one
    excluded_ports,     \* _excluded_ports
    server_port,        \* the TCP port of the server whose connections are observed
    nskipped            \* history: the number of packets packet_callback has skipped

exclVars == <<sniffer, cli, excluded_ports, server_port, nskipped>>

VARIABLES
    message_in,         \* the message handed to get_message_type
    message_type        \* what get_message_type returned or raised, "none" before the call

clsVars == <<message_in, message_type>>

VARIABLES
    logs,               \* the rows of the table logs, in the order they were inserted
    now,                \* the clock the capture reads for the timestamp of a record
    store_call,         \* history: the last call of log_message, its outcome and the table before it
    query_call,         \* history: the last query since the last insert, its arguments and what it returned
    metric_call         \* history: the last metrics call since the last insert, its interval and what it returned

storeVars == <<logs, now, store_call, query_call, metric_call>>

\* the query server on its HTTP transport (mcp_server/server.py)
VARIABLES
    sessions,           \* the keys of the sessions dict of run_http
    initialized,        \* history: the session ids under which an initialize request was answered with a result
    http_call           \* history: the last request of handle_mcp_request and its response

mcpVars == <<sessions, initialized, http_call>>

\* the stdout thread of the wrapper next to its main thread (wrapper.py)
VARIABLES
    running,            \* MCPWrapper.running
    nread               \* how many bytes of the child's stdout the thread has read from the pipe

drainVars == <<running, nread>>

\* the variables of the parts modelled on their own, below the capture pipeline
auxVars == <<bufVars, wrapVars, lifeVars, regVars, exclVars, clsVars, storeVars, mcpVars, drainVars>>

vars == <<hubVars, capVars, auxVars>>

(***************************************************************************)
(* Payload bytes.  A payload is a sequence of tokens.  CR and LF are the   *)
(* bytes \r and \n.  A request head stands for the request line and the    *)
(* header lines of a request, a response head for "HTTP/1.1 200 OK" and    *)
(* the header lines of a response, each without the blank line that ends   *)
(* the headers (CR LF CR LF follows as separate tokens).  DATA stands for  *)
(* "data: ", EVENT_MESSAGE for "event: message", EVENT_ENDPOINT for        *)
(* "event: endpoint"; a JSON object is "{", one content token, "}".        *)
(* Every token counts as one byte in lengths and chunk sizes.              *)
(***************************************************************************)
CR == "CR"

LF == "LF"

CRLF == <<CR, LF>>

CRLFCRLF == <<CR, LF, CR, LF>>

LFLF == <<LF, LF>>

DATA == "data: "

EVENT_MESSAGE == "event: message"

EVENT_ENDPOINT == "event: endpoint"

\* request line and headers: method and the Accept header
RequestHeads == {"GET_sse", "GET_none", "POST_dual", "POST_none"}

\* status line and headers: Content-Type, Transfer-Encoding, Content-Length;
\* RESP_garbled is a status line followed by lines that are no headers
ResponseHeads == {"RESP_sse", "RESP_sse_chunked", "RESP_json", "RESP_badlen", "RESP_garbled"}

MethodOf(head) == IF head \in {"GET_sse", "GET_none"} THEN "GET" ELSE "POST"

\* the Accept header of a request head: "text/event-stream", "application/json, text/event-stream", or absent
AcceptOf(head) == IF head = "GET_sse" THEN "sse" ELSE IF head = "POST_dual" THEN "dual" ELSE "none"

\* contents of a JSON object: a request, two responses, an error response, a
\* message with neither method nor result, and the payload of an endpoint event
JsonRpcContents == {"req", "res1", "res2", "err", "bare"}

JsonContents == JsonRpcContents \cup {"url"}

HexDigits == <<"0", "1", "2", "3", "4", "5", "6", "7", "8", "9", "a", "b", "c", "d", "e", "f">>

Whitespace == {CR, LF, " "}

StartsWith(s, p) == Len(s) >= Len(p) /\ SubSeq(s, 1, Len(p)) = p

\* bytes.find: the 0-based offset of the first occurrence of p in s, -1 when absent
Find(s, p) ==
    LET hits == {i \in 0..(Len(s) - Len(p)) : SubSeq(s, i + 1, i + Len(p)) = p}
    IN IF hits = {} THEN -1 ELSE CHOOSE i \in hits : \A j \in hits : i <= j

Contains(s, p) == Find(s, p) >= 0

\* s[n:]
From(s, n) == IF n >= Len(s) THEN <<>> ELSE SubSeq(s, n + 1, Len(s))

\* s[:n]
UpTo(s, n) == SubSeq(s, 1, IF n < Len(s) THEN n ELSE Len(s))

RECURSIVE LStrip(_)
LStrip(s) == IF s # <<>> /\ Head(s) \in Whitespace THEN LStrip(Tail(s)) ELSE s

RECURSIVE RStrip(_)
RStrip(s) == IF s # <<>> /\ s[Len(s)] \in Whitespace THEN RStrip(SubSeq(s, 1, Len(s) - 1)) ELSE s

\* str.strip
Strip(s) == RStrip(LStrip(s))

\* str.split('\n')
RECURSIVE SplitLines(_)
SplitLines(s) ==
    LET i == Find(s, <<LF>>)
    IN IF i < 0 THEN <<s>> ELSE <<UpTo(s, i)>> \o SplitLines(From(s, i + 1))

\* "jsonrpc" in text
ContainsJsonRpc(s) == \E i \in 1..Len(s) : s[i] \in JsonRpcContents

\* "text/event-stream" in text
ContainsEventStream(s) == \E i \in 1..Len(s) : s[i] \in {"GET_sse", "POST_dual", "RESP_sse", "RESP_sse_chunked"}

\* json.loads: the content of the object, or "invalid" for a JSONDecodeError
JsonLoads(s) == IF Len(Strip(s)) = 3 /\ Strip(s)[1] = "{" /\ Strip(s)[2] \in JsonContents /\ Strip(s)[3] = "}" THEN Strip(s)[2] ELSE "invalid"

HexValue(d) == (CHOOSE i \in 1..16 : HexDigits[i] = d) - 1

\* int(text, 16) of a stripped chunk-size line: the value, or -1 for a ValueError
RECURSIVE HexInt(_, _)
HexInt(s, acc) ==
    IF s = <<>> THEN acc
    ELSE IF Head(s) \in Range(HexDigits) THEN HexInt(Tail(s), acc * 16 + HexValue(Head(s)))
    ELSE -1

ParseChunkSize(s) == IF Strip(s) = <<>> THEN -1 ELSE HexInt(Strip(s), 0)

(***************************************************************************)
(* Initial state of the broadcast hub                                      *)
(***************************************************************************)
\* a broadcast_new_log coroutine: where it is, the index of the list iterator,
\* the socket it is sending to, and its local list disconnected
NoTask == [pc |-> "none", idx |-> 0, cur |-> 0, disconnected |-> <<>>]

HubStart ==
    /\ active_clients = <<>>
    /\ ws_state = [s \in Subscribers |-> "unconnected"]
    /\ task = [r \in Records |-> NoTask]
    /\ sendq = [s \in Subscribers |-> <<>>]
    /\ received = [s \in Subscribers |-> <<>>]
    /\ published = 0
    /\ pub_pc = "idle"
    /\ nstart = [r \in Records |-> 0]

\* HTTPStream.__init__ (buffer = b"") and ws_buffers = {}
BufferStart ==
    /\ buffer_len = 0
    /\ ws_buffer_len = 0

\* MCPWrapper.start: the child has just been started
WrapperStart ==
    /\ child_stdout = <<>>
    /\ forwarded = <<>>
    /\ stdout_buffer = <<>>
    /\ stdio_records = <<>>
    /\ pendingcr = FALSE
    /\ stdout_thread = "reading"

\* no exit code yet
NoCode == -1000

\* MCPWrapper.start has started the child and its threads and waits for it
ChildRunning ==
    /\ wrapper = "waiting"
    /\ child = "running"
    /\ returncode = NoCode
    /\ exit_status = NoCode
    /\ child_signals = {}
    /\ signalled = "none"

\* sniffer.py at import: no server info is cached
RegistryStart ==
    /\ server_registry = {}
    /\ metadata = <<>>

\* no command line
NoCommand == [with_mcp |-> FALSE, mcp_transport |-> "none"]

\* sniffer.py at import: nothing is excluded and no capture runs
SnifferStart ==
    /\ sniffer = "idle"
    /\ cli = NoCommand
    /\ excluded_ports = {}
    /\ server_port = 0
    /\ nskipped = 0

\* a message as get_message_type sees it: what json.loads makes of the text
\* ("invalid" for a JSONDecodeError, "empty" for a value that is false in
\* Python, "array" or "string" for another value that is no object), the value of its
\* "jsonrpc" member, and which of the members method, result, error and id
\* it has
Message(json, jsonrpc, members) == [json |-> json, jsonrpc |-> jsonrpc, members |-> members]

\* no call of get_message_type is under way
ClassifierStart ==
    /\ message_in = Message("invalid", "none", {})
    /\ message_type = "none"

\* no call yet
NoStoreCall == [outcome |-> "none", log_id |-> 0, before |-> <<>>]
NoQuery == [op |-> "none", limit |-> 0, offset |-> 0, filter |-> "none", result |-> <<>>]

\* init_db has created the empty table logs
NoMetric == [op |-> "none", interval |-> 0, result |-> <<>>]

StoreStart ==
    /\ logs = <<>>
    /\ now = 0
    /\ store_call = NoStoreCall
    /\ query_call = NoQuery
    /\ metric_call = NoMetric

NoHttpCall == [method |-> "none", has_id |-> FALSE, header |-> "none", session_id |-> "none", tool |-> "none", response |-> "none", code |-> 0]

McpStart ==
    /\ sessions = {}
    /\ initialized = {}
    /\ http_call = NoHttpCall

\* MCPWrapper.start has set running and started the threads
ThreadsStart ==
    /\ running = TRUE
    /\ nread = 0

AuxStart == BufferStart /\ WrapperStart /\ ChildRunning /\ RegistryStart /\ SnifferStart /\ ClassifierStart /\ StoreStart /\ McpStart /\ ThreadsStart

(***************************************************************************)
(* Transport tracker (transport_detector.py)                               *)
(***************************************************************************)
STDIO == "stdio"

STREAMABLE_HTTP == "streamable_http"

HTTP_SSE == "http_sse"

UNKNOWN == "unknown"

MCPTransport == {STDIO, STREAMABLE_HTTP, HTTP_SSE, UNKNOWN}

\* dict assignment d[k] = v
DictSet(d, k, v) == [x \in (DOMAIN d) \cup {k} |-> IF x = k THEN v ELSE d[x]]

EmptyDict == [x \in {} |-> UNKNOWN]

NewTracker == [transports |-> EmptyDict, http_sse_servers |-> EmptyDict]

UpdateTransportUnguarded(tr, src, dst, transport) ==
    [transports |-> DictSet(DictSet(tr.transports, <<src, dst>>, transport), <<dst, src>>, transport),
     http_sse_servers |-> IF transport = HTTP_SSE THEN DictSet(tr.http_sse_servers, dst, transport) ELSE tr.http_sse_servers]

\* TransportTracker.update_transport
UpdateTransport(tr, src, dst, transport) ==
    IF transport # UNKNOWN
    THEN [transports |-> DictSet(DictSet(tr.transports, <<src, dst>>, transport), <<dst, src>>, transport),
          http_sse_servers |-> IF transport = HTTP_SSE THEN DictSet(tr.http_sse_servers, dst, transport) ELSE tr.http_sse_servers]
    ELSE tr

\* TransportTracker.get_transport
GetTransport(tr, src, dst) ==
    IF <<src, dst>> \in DOMAIN tr.transports THEN tr.transports[<<src, dst>>]
    ELSE IF dst \in DOMAIN tr.http_sse_servers THEN tr.http_sse_servers[dst]
    ELSE IF src \in DOMAIN tr.http_sse_servers THEN tr.http_sse_servers[src]
    ELSE UNKNOWN

(***************************************************************************)
(* HTTPStream (tcp_reassembly.py)                                          *)
(***************************************************************************)

\* detect_transport_from_http
DetectTransportFromHttp(method, accept, is_sse_response) ==
    IF method = "GET" /\ accept = "sse" THEN HTTP_SSE
    ELSE IF method = "POST" /\ accept = "dual" THEN STREAMABLE_HTTP
    ELSE IF is_sse_response THEN (IF method = "POST" THEN STREAMABLE_HTTP ELSE HTTP_SSE)
    ELSE UNKNOWN

\* history: the classification above came from the SSE-response guess
IsWeakInference(method, accept, is_sse_response) ==
    /\ ~(method = "GET" /\ accept = "sse")
    /\ ~(method = "POST" /\ accept = "dual")
    /\ is_sse_response

\* HTTPStream.__init__; weak and inherits are history fields: whether
\* detected_transport is a weak inference, and whether the stream was created
\* when the server endpoint was already marked http_sse
NewStream ==
    [response_headers |-> "None", content_length |-> "None", is_chunked |-> FALSE, is_sse |-> FALSE,
     buffer |-> <<>>, request_method |-> "None", request_accept |-> "none",
     detected_transport |-> UNKNOWN, weak |-> FALSE, inherits |-> FALSE]

\* HTTPStream.add_request
AddRequest(st, data) ==
    [st EXCEPT !.buffer = <<>>,
               !.request_method = MethodOf(data[1]),
               !.request_accept = AcceptOf(data[1]),
               !.detected_transport = DetectTransportFromHttp(MethodOf(data[1]), AcceptOf(data[1]), FALSE),
               !.weak = FALSE]

\* the last token of text that lies in heads, "none" when there is none: the
\* header dict keeps the last value assigned to a key
LastHead(text, heads) ==
    LET hits == {i \in 1..Len(text) : text[i] \in heads}
    IN IF hits = {} THEN "none" ELSE text[CHOOSE i \in hits : \A j \in hits : j <= i]

\* HTTPStream.add_response_data; raised is the ValueError of int() on a
\* Content-Length that is not a number
AddResponseData(st, data) ==
    LET buf == st.buffer \o data
    IN IF st.response_headers = "None" /\ Contains(buf, CRLFCRLF)
       THEN LET header_end == Find(buf, CRLFCRLF) + 4
                header_data == UpTo(buf, header_end)
                is_sse == LastHead(header_data, ResponseHeads) \in {"RESP_sse", "RESP_sse_chunked"}
                is_chunked == LastHead(header_data, {"RESP_sse_chunked"}) # "none"
                content_length == LastHead(header_data, {"RESP_json", "RESP_badlen"})
                parsed == [st EXCEPT !.buffer = From(buf, header_end), !.response_headers = "parsed",
                                     !.is_sse = is_sse, !.is_chunked = is_chunked]
                sized == IF ~is_chunked /\ content_length = "RESP_json" THEN [parsed EXCEPT !.content_length = "number"] ELSE parsed
            IN IF ~is_chunked /\ content_length = "RESP_badlen"
               THEN [stream |-> parsed, raised |-> TRUE]
               ELSE IF st.request_method # "None"
               THEN [stream |-> [sized EXCEPT !.detected_transport = DetectTransportFromHttp(st.request_method, st.request_accept, is_sse),
                                              !.weak = IsWeakInference(st.request_method, st.request_accept, is_sse)],
                     raised |-> FALSE]
               ELSE [stream |-> sized, raised |-> FALSE]
       ELSE [stream |-> [st EXCEPT !.buffer = buf], raised |-> FALSE]

\* the while loop of HTTPStream.extract_chunked_data; data is the dechunked
\* bytes (empty where the code returns None), buffer the new self.buffer
RECURSIVE ChunkLoop(_, _, _)
ChunkLoop(buf, complete_data, original_buffer) ==
    IF ~Contains(buf, CRLF) THEN [data |-> complete_data, buffer |-> buf]
    ELSE LET size_end == Find(buf, CRLF)
             chunk_size == ParseChunkSize(UpTo(buf, size_end))
             chunk_start == size_end + 2
             chunk_end == chunk_start + chunk_size + 2
         IN IF chunk_size < 0 THEN [data |-> complete_data, buffer |-> buf]
            ELSE IF chunk_size = 0 THEN [data |-> complete_data, buffer |-> From(buf, size_end + 4)]
            ELSE IF Len(buf) < chunk_end THEN [data |-> complete_data, buffer |-> original_buffer]
            ELSE ChunkLoop(From(buf, chunk_end), complete_data \o SubSeq(buf, chunk_start + 1, chunk_start + chunk_size), original_buffer)

\* HTTPStream.extract_chunked_data
ExtractChunkedData(buffer) == ChunkLoop(buffer, <<>>, buffer)

\* extract_endpoint_from_sse: whether an endpoint URL is found
ExtractEndpointFromSse(sse_data) ==
    LET lines == SplitLines(Strip(sse_data))
        events == {i \in 1..Len(lines) : lines[i] # <<>> /\ Head(lines[i]) \in {EVENT_MESSAGE, EVENT_ENDPOINT}}
        datas == {i \in 1..Len(lines) : lines[i] # <<>> /\ Head(lines[i]) = DATA}
        last_event == lines[CHOOSE i \in events : \A j \in events : j <= i]
        last_data == lines[CHOOSE i \in datas : \A j \in datas : j <= i]
    IN /\ events # {}
       /\ datas # {}
       /\ Head(last_event) = EVENT_ENDPOINT
       /\ Strip(Tail(last_event)) = <<>>
       /\ JsonLoads(Tail(last_data)) = "url"

\* the "for line in msg_data.split('\n')" loop of extract_sse_messages
RECURSIVE DataLines(_)
DataLines(lines) ==
    IF lines = <<>> THEN <<>>
    ELSE LET line == Head(lines)
             json_data == IF line # <<>> /\ Head(line) = DATA THEN Strip(Tail(line)) ELSE <<>>
         IN (IF json_data # <<>> /\ Head(json_data) = "{" THEN <<json_data>> ELSE <<>>) \o DataLines(Tail(lines))

\* the while loop of extract_sse_messages over data_to_process
RECURSIVE SseLoop(_, _, _)
SseLoop(data_to_process, messages, st) ==
    IF Contains(data_to_process, CRLFCRLF) \/ Contains(data_to_process, LFLF)
    THEN LET crlf_pos == Find(data_to_process, CRLFCRLF)
             lf_pos == Find(data_to_process, LFLF)
             msg_end == IF crlf_pos >= 0 /\ (lf_pos < 0 \/ crlf_pos < lf_pos) THEN crlf_pos + 4 ELSE lf_pos + 2
             msg_data == UpTo(data_to_process, msg_end)
             endpoint == Contains(msg_data, <<EVENT_ENDPOINT>>) /\ ExtractEndpointFromSse(msg_data)
         IN SseLoop(From(data_to_process, msg_end),
                    messages \o DataLines(SplitLines(msg_data)),
                    IF endpoint THEN [st EXCEPT !.detected_transport = HTTP_SSE, !.weak = FALSE] ELSE st)
    ELSE [messages |-> messages, stream |-> st]

\* HTTPStream.extract_sse_messages, given data_to_process and the buffer that
\* extract_chunked_data leaves in self.buffer
ExtractFrom(st, data_to_process, buffer) ==
    IF data_to_process # <<>>
    THEN SseLoop(data_to_process, <<>>, [st EXCEPT !.buffer = buffer])
    ELSE [messages |-> <<>>, stream |-> [st EXCEPT !.buffer = buffer]]

\* the chunked branch of extract_sse_messages
ExtractDechunked(st, chunk) == ExtractFrom(st, chunk.data, chunk.buffer)

\* HTTPStream.extract_sse_messages
ExtractSseMessages(st) ==
    IF st.is_chunked /\ st.buffer # <<>>
    THEN ExtractDechunked(st, ExtractChunkedData(st.buffer))
    ELSE ExtractFrom(st, st.buffer, st.buffer)

NoCall == [op |-> "none", src |-> Server, dst |-> Server, transport |-> UNKNOWN, weak |-> FALSE, before |-> UNKNOWN]

CaptureStart ==
    /\ streams = EmptyDict
    /\ transport_tracker = NewTracker
    /\ records = <<>>
    /\ crashed = FALSE
    /\ npackets = 0
    /\ last_call = NoCall
    /\ emitted = <<>>
    /\ response = <<>>
    /\ sent = 0

(***************************************************************************)
(* TCPStreamReassembler.process_packet (tcp_reassembly.py)                 *)
(***************************************************************************)

\* StreamKey.__init__: the two endpoints in a fixed order
StreamKey(src, dst) == IF src < dst THEN <<src, dst>> ELSE <<dst, src>>

\* the dict appended to messages for each extracted SSE message
MessageInfo(pkt, msg, type, transport) == [src |-> pkt.src, dst |-> pkt.dst, message |-> msg, type |-> type, transport |-> transport]

RECURSIVE MessageInfos(_, _, _, _)
MessageInfos(pkt, msgs, type, transport) ==
    IF msgs = <<>> THEN <<>> ELSE <<MessageInfo(pkt, Head(msgs), type, transport)>> \o MessageInfos(pkt, Tail(msgs), type, transport)

\* the result of process_packet: the new reassembler state, the returned
\* messages, whether an exception left the call, and (history) whether the
\* tracker was updated with a weakly inferred transport
Processed(strs, tracker, messages, raised, weak) ==
    [streams |-> strs, tracker |-> tracker, messages |-> messages, raised |-> raised, weak |-> weak]

\* the branches "HTTP response" and "SSE data following headers": add the
\* payload, extract, and update the tracker once per extracted message
SseMessages(pkt, key, strs, tracker, type, extracted) ==
    LET st == extracted.stream
        update == extracted.messages # <<>> /\ st.detected_transport # UNKNOWN
    IN Processed(DictSet(strs, key, st),
                 IF update THEN UpdateTransport(tracker, pkt.src, pkt.dst, st.detected_transport) ELSE tracker,
                 MessageInfos(pkt, extracted.messages, type, st.detected_transport),
                 FALSE, update /\ st.weak)

ResponseAdded(pkt, key, strs, tracker, type, added) ==
    IF added.raised THEN Processed(DictSet(strs, key, added.stream), tracker, <<>>, TRUE, FALSE)
    ELSE IF added.stream.is_sse
    THEN SseMessages(pkt, key, strs, tracker, type, ExtractSseMessages(added.stream))
    ELSE Processed(DictSet(strs, key, added.stream), tracker, <<>>, FALSE, FALSE)

ResponseBranch(pkt, key, strs, tracker, type) ==
    ResponseAdded(pkt, key, strs, tracker, type, AddResponseData(strs[key], pkt.payload))

\* the branch "standalone SSE data packet": the payload replaces the buffer
StandaloneSse(pkt, key, strs, tracker, extracted) ==
    Processed(DictSet(strs, key, extracted.stream), tracker,
              MessageInfos(pkt, extracted.messages, "sse_data", GetTransport(tracker, pkt.src, pkt.dst)),
              FALSE, FALSE)

\* TCPStreamReassembler.process_packet for a TCP packet with a payload
ProcessPacket(pkt, strs0, tracker) ==
    LET key == StreamKey(pkt.src, pkt.dst)
        strs == IF key \in DOMAIN strs0 THEN strs0
                ELSE DictSet(strs0, key, [NewStream EXCEPT !.inherits = Server \in DOMAIN tracker.http_sse_servers])
        stream == strs[key]
        payload == pkt.payload
    IN IF Head(payload) \in RequestHeads
       THEN LET st == AddRequest(stream, payload)
            IN Processed(DictSet(strs, key, st),
                         IF st.detected_transport # UNKNOWN THEN UpdateTransport(tracker, pkt.src, pkt.dst, st.detected_transport) ELSE tracker,
                         <<>>, FALSE, FALSE)
       ELSE IF Head(payload) \in ResponseHeads
       THEN ResponseBranch(pkt, key, strs, tracker, "sse_response")
       ELSE IF Head(payload) = DATA /\ ContainsJsonRpc(payload)
       THEN StandaloneSse(pkt, key, strs, tracker, ExtractSseMessages([stream EXCEPT !.buffer = payload]))
       ELSE IF stream.response_headers # "None" /\ stream.is_sse
       THEN ResponseBranch(pkt, key, strs, tracker, "sse_continuation")
       ELSE IF stream.response_headers # "None"
       THEN Processed(DictSet(strs, key, AddResponseData(stream, payload).stream), tracker, <<>>, FALSE, FALSE)
       ELSE Processed(strs, tracker, <<>>, FALSE, FALSE)

(***************************************************************************)
(* packet_callback (sniffer.py)                                            *)
(***************************************************************************)
INCOMING == "incoming"

OUTGOING == "outgoing"

\* the row written by log_message; via, origin and inherits are history
\* fields: which path wrote the row, where its text came from (an HTTP
\* "response", an HTTP "request", or "raw" bytes with no HTTP headers), and
\* whether its connection was created under an http_sse server endpoint
Entry(src, dst, direction, message, transport, via, origin, inherits) ==
    [src |-> src, dst |-> dst, direction |-> direction, message |-> message, transport_type |-> transport,
     via |-> via, origin |-> origin, inherits |-> inherits]

\* direction of a reassembled message, from its type
ReassembledDirection(type) == IF type = "HTTP Response" THEN INCOMING ELSE OUTGOING

\* the loop over reassembled_messages
RECURSIVE ReassembledEntries(_, _)
ReassembledEntries(infos, inherits) ==
    IF infos = <<>> THEN <<>>
    ELSE (IF ContainsJsonRpc(Head(infos).message)
          THEN <<Entry(Head(infos).src, Head(infos).dst, ReassembledDirection(Head(infos).type), Head(infos).message,
                       Head(infos).transport, "reassembler", IF Head(infos).type = "sse_data" THEN "raw" ELSE "response", inherits)>>
          ELSE <<>>) \o ReassembledEntries(Tail(infos), inherits)

\* text up to the first "\n"
FirstLine(text) == IF Contains(text, <<LF>>) THEN UpTo(text, Find(text, <<LF>>)) ELSE text

\* the JSON-RPC text the direct path takes from one payload (lines 171-209)
DirectText(decoded) ==
    LET sse_data == FirstLine(Tail(decoded))
        first == IF Head(decoded) = DATA /\ ContainsJsonRpc(decoded) /\ StartsWith(sse_data, <<"{">>) THEN sse_data ELSE decoded
        json_body == From(first, Find(first, CRLFCRLF) + 4)
        body_sse == FirstLine(Tail(json_body))
    IN IF Head(first) \in (ResponseHeads \cup {"POST_dual", "POST_none"}) /\ Contains(first, CRLFCRLF)
       THEN IF ContainsEventStream(first) /\ StartsWith(json_body, <<DATA>>)
            THEN (IF StartsWith(body_sse, <<"{">>) /\ ContainsJsonRpc(body_sse) THEN body_sse ELSE first)
            ELSE IF StartsWith(json_body, <<"{">>) /\ ContainsJsonRpc(json_body) THEN json_body
            ELSE first
       ELSE first

\* direction of a directly extracted message, from its JSON shape (lines 246-263)
ShapeDirection(decoded) ==
    IF JsonLoads(decoded) \in {"res1", "res2", "err"} THEN INCOMING
    ELSE IF JsonLoads(decoded) = "req" THEN OUTGOING
    ELSE "unknown"

\* history: what kind of bytes the payload is
OriginOf(payload) == IF Head(payload) \in ResponseHeads THEN "response" ELSE IF Head(payload) \in RequestHeads THEN "request" ELSE "raw"

\* the direct path of packet_callback (lines 159-299)
DirectEntries(pkt, tracker, inherits) ==
    LET decoded == DirectText(pkt.payload)
    IN IF StartsWith(decoded, <<"{">>) /\ ContainsJsonRpc(decoded)
       THEN <<Entry(pkt.src, pkt.dst, ShapeDirection(decoded), decoded, GetTransport(tracker, pkt.src, pkt.dst),
                    "direct", OriginOf(pkt.payload), inherits)>>
       ELSE <<>>

\* packet_callback after process_packet has returned done (or raised)
LogMessages(pkt, done) ==
    LET inherits == done.streams[StreamKey(pkt.src, pkt.dst)].inherits
    IN /\ streams' = done.streams
       /\ transport_tracker' = done.tracker
       /\ crashed' = done.raised
       /\ emitted' = emitted \o done.messages
       /\ records' = IF done.raised THEN records
                     ELSE records \o ReassembledEntries(done.messages, inherits) \o DirectEntries(pkt, done.tracker, inherits)
       /\ npackets' = npackets + 1
       /\ last_call' = [NoCall EXCEPT !.op = "packet", !.src = pkt.src, !.dst = pkt.dst, !.weak = done.weak,
                                      !.transport = GetTransport(done.tracker, pkt.src, pkt.dst),
                                      !.before = GetTransport(transport_tracker, pkt.src, pkt.dst)]

\* packet_callback for one packet
PacketCallback(pkt) == LogMessages(pkt, ProcessPacket(pkt, streams, transport_tracker))

(***************************************************************************)
(* Capture of whole packets on connections between the clients and the     *)
(* server                                                                  *)
(***************************************************************************)
Json(content) == <<"{", content, "}">>

\* payloads a client sends
ClientPayloads ==
    { <<"GET_sse">> \o CRLFCRLF,
      <<"GET_none">> \o CRLFCRLF,
      <<"POST_none">> \o CRLFCRLF \o Json("req"),
      <<"POST_dual">> \o CRLFCRLF \o Json("req"),
      Json("req"),
      <<"{", "req">> }

\* payloads the server sends
ServerPayloads ==
    { <<"RESP_sse">> \o CRLFCRLF \o <<EVENT_ENDPOINT, LF, DATA>> \o Json("url") \o LFLF,
      <<"RESP_sse">> \o CRLFCRLF \o <<DATA>> \o Json("res1") \o LFLF,
      <<"RESP_sse_chunked">> \o CRLFCRLF \o <<"b">> \o CRLF \o <<EVENT_MESSAGE, CR, LF, DATA>> \o Json("res1") \o CRLFCRLF \o CRLF \o <<"0">> \o CRLFCRLF,
      <<"RESP_json">> \o CRLFCRLF \o Json("res1"),
      <<"RESP_badlen">> \o CRLFCRLF \o Json("res1"),
      <<EVENT_MESSAGE, LF, DATA>> \o Json("res2") \o LFLF,
      <<DATA>> \o Json("res2") \o LFLF,
      Json("err"),
      Json("bare") }

Packets ==
    [src : Clients, dst : {Server}, payload : ClientPayloads] \cup [src : {Server}, dst : Clients, payload : ServerPayloads]

\* the capture thread hands the next sniffed packet to packet_callback
Capture(pkt) ==
    /\ ~crashed
    /\ npackets < MaxPackets
    /\ PacketCallback(pkt)
    /\ UNCHANGED <<response, sent>>

InitCapture == CaptureStart /\ HubStart /\ has_loop = FALSE /\ AuxStart

NextCapture == \E pkt \in Packets : Capture(pkt)

SpecCapture == InitCapture /\ [][NextCapture /\ UNCHANGED <<hubVars, auxVars>>]_vars

(***************************************************************************)
(* Reassembly of one SSE response whose bytes arrive in several packets    *)
(***************************************************************************)

\* one SSE event carrying one JSON object, ended by "\n\n"
Event(content) == <<DATA>> \o Json(content) \o LFLF

\* the same with an event line and "\r\n" line ends
EventCrlf(content) == <<EVENT_MESSAGE, CR, LF, DATA>> \o Json(content) \o CRLFCRLF

\* one chunk of a chunked body: hex size, CRLF, the bytes, CRLF
Chunk(data) == <<HexDigits[Len(data) + 1]>> \o CRLF \o data \o CRLF

LastChunk == <<"0">> \o CRLFCRLF

SseHeaders == <<"RESP_sse">> \o CRLFCRLF

ChunkedSseHeaders == <<"RESP_sse_chunked">> \o CRLFCRLF

\* the responses tried: two events; one event with CRLF line ends; the same
\* bodies chunked, with an event per chunk and with an event cut by a chunk
\* boundary
SseResponses ==
    { SseHeaders \o Event("res1") \o Event("res2"),
      SseHeaders \o EventCrlf("res1"),
      ChunkedSseHeaders \o Chunk(EventCrlf("res1")) \o LastChunk,
      ChunkedSseHeaders \o Chunk(Event("res1")) \o Chunk(Event("res2")) \o LastChunk,
      ChunkedSseHeaders \o Chunk(<<DATA, "{", "res1">>) \o Chunk(<<"}", LF, LF>>) \o LastChunk }

\* the JSON objects a response carries
ObjectsOf(resp) == {resp[i] : i \in {j \in 1..Len(resp) : resp[j] \in JsonRpcContents}}

\* the next k bytes of the response arrive as one TCP payload; the first
\* payload holds at least the status line and the headers
Deliver(k) ==
    /\ ~crashed
    /\ sent + k <= Len(response)
    /\ sent = 0 => k >= Len(SseHeaders)
    /\ PacketCallback([src |-> Server, dst |-> 1, payload |-> SubSeq(response, sent + 1, sent + k)])
    /\ sent' = sent + k
    /\ UNCHANGED response

InitSse ==
    /\ HubStart /\ has_loop = FALSE /\ AuxStart
    /\ streams = EmptyDict
    /\ transport_tracker = NewTracker
    /\ records = <<>>
    /\ crashed = FALSE
    /\ npackets = 0
    /\ last_call = NoCall
    /\ emitted = <<>>
    /\ response \in SseResponses
    /\ sent = 0

NextSse == \E k \in 1..Len(response) : Deliver(k)

SpecSse == InitSse /\ [][NextSse /\ UNCHANGED <<hubVars, auxVars>>]_vars

\* a caller updates the tracker with any classification, unknown included
TrackerUpdate(src, dst, transport) ==
    /\ src # dst
    /\ transport_tracker' = UpdateTransport(transport_tracker, src, dst, transport)
    /\ last_call' = [NoCall EXCEPT !.op = "update_transport", !.src = src, !.dst = dst, !.transport = transport,
                                   !.before = GetTransport(transport_tracker, src, dst)]
    /\ UNCHANGED <<streams, records, crashed, npackets, emitted, response, sent>>

InitTracker == CaptureStart /\ HubStart /\ has_loop = FALSE /\ AuxStart

\* the connections are those between a client and the server; a packet of
\* either direction can carry the update
NextTracker ==
    \E c \in Clients : \E transport \in MCPTransport :
        \/ TrackerUpdate(c, Server, transport)
        \/ TrackerUpdate(Server, c, transport)

SpecTracker == InitTracker /\ [][NextTracker /\ UNCHANGED <<hubVars, auxVars>>]_vars

(***************************************************************************)
(* Broadcast hub                                                           *)
(***************************************************************************)
InitHub ==
    /\ HubStart
    /\ AuxStart
    /\ has_loop \in BOOLEAN
    /\ CaptureStart

\* active_clients.append(websocket)
SubscribeFront(list, s) == <<s>> \o list

Subscribe(list, s) == Append(list, s)

\* websocket_endpoint: accept, then register the socket; sockets are numbered
\* in the order they are accepted
Connect(s) ==
    /\ ws_state[s] = "unconnected"
    /\ \A t \in 1..(s - 1) : ws_state[t] # "unconnected"
    /\ ws_state' = [ws_state EXCEPT ![s] = "open"]
    /\ active_clients' = Subscribe(active_clients, s)
    /\ UNCHANGED <<task, sendq, received, published, pub_pc, has_loop>>

\* websocket_endpoint: the peer has gone away, the receive loop ends and the
\* finally block unregisters the socket
EndpointFinally(s) ==
    /\ ws_state[s] \in {"open", "broken"}
    /\ ws_state' = [ws_state EXCEPT ![s] = "closed"]
    /\ active_clients' = ListRemove(active_clients, s)
    /\ UNCHANGED <<task, sendq, received, published, pub_pc, has_loop>>

\* _broadcast_in_any_loop: create_task when a loop is running, else asyncio.run
Publish ==
    /\ pub_pc = "idle"
    /\ published < MaxRecords
    /\ published' = published + 1
    /\ task' = [task EXCEPT ![published + 1] = [NoTask EXCEPT !.pc = "scheduled"]]
    /\ pub_pc' = IF has_loop THEN "idle" ELSE "blocked"
    /\ UNCHANGED <<active_clients, ws_state, sendq, received, has_loop>>

\* for ws in disconnected: if ws in active_clients: active_clients.remove(ws)
RECURSIVE RemoveAll(_, _)
RemoveAll(list, dead) == IF dead = <<>> THEN list ELSE RemoveAll(ListRemove(list, Head(dead)), Tail(dead))

\* the coroutine runs from where it is to its next await: either the next
\* ws.send_json of the for loop, or the end of broadcast_new_log
Advance(r, t, q) ==
    IF t.idx < Len(active_clients)
    THEN /\ task' = [task EXCEPT ![r] = [t EXCEPT !.pc = "sending", !.idx = t.idx + 1, !.cur = active_clients[t.idx + 1]]]
         /\ sendq' = [q EXCEPT ![active_clients[t.idx + 1]] = Append(@, r)]
         /\ UNCHANGED <<active_clients, pub_pc>>
    ELSE /\ task' = [task EXCEPT ![r] = [t EXCEPT !.pc = "done", !.idx = 0, !.cur = 0]]
         /\ sendq' = q
         /\ active_clients' = RemoveAll(active_clients, t.disconnected)
         /\ pub_pc' = IF has_loop THEN pub_pc ELSE "idle"

\* broadcast_new_log starts: the empty check, then the first send; the event
\* loop starts the tasks in the order they were created
TaskStart(r) ==
    /\ task[r].pc = "scheduled"
    /\ \A q \in 1..(r - 1) : task[q].pc # "scheduled"
    /\ IF active_clients = <<>>
       THEN /\ task' = [task EXCEPT ![r].pc = "done"]
            /\ pub_pc' = IF has_loop THEN pub_pc ELSE "idle"
            /\ UNCHANGED <<active_clients, sendq>>
       ELSE Advance(r, task[r], sendq)
    /\ UNCHANGED <<ws_state, received, published, has_loop>>

\* await ws.send_json(log_entry) returns (ok) or raises; it can return only
\* on a socket that is open, and once a send on a socket has raised, the peer
\* is gone and every later send on it raises
SendComplete(r, ok) ==
    /\ task[r].pc = "sending"
    /\ LET s == task[r].cur
           q == [sendq EXCEPT ![s] = Tail(@)]
           t == IF ok THEN task[r] ELSE [task[r] EXCEPT !.disconnected = Append(@, s)]
       IN /\ Head(sendq[s]) = r
          /\ ok => ws_state[s] = "open"
          /\ received' = IF ok THEN [received EXCEPT ![s] = Append(@, r)] ELSE received
          /\ ws_state' = IF ~ok /\ ws_state[s] = "open" THEN [ws_state EXCEPT ![s] = "broken"] ELSE ws_state
          /\ Advance(r, t, q)
    /\ UNCHANGED <<published, has_loop>>

NextHub ==
    \/ \E s \in Subscribers : Connect(s)
    \/ \E s \in Subscribers : EndpointFinally(s)
    \/ Publish
    \/ \E r \in Records : TaskStart(r)
    \/ \E r \in Records : \E ok \in BOOLEAN : SendComplete(r, ok)

SpecHub == InitHub /\ [][NextHub /\ UNCHANGED <<capVars, auxVars, nstart>>]_vars

\* the hub with the history variable nstart: when a coroutine starts, the
\* number of sockets accepted so far is recorded.  Sockets are numbered in
\* accept order and an open socket is never unregistered, so an open socket
\* was registered when the coroutine of record r started exactly when its
\* number is at most nstart[r].
RecordStart ==
    nstart' = [r \in Records |->
                  IF task[r].pc = "scheduled" /\ task'[r].pc # "scheduled"
                  THEN Cardinality({s \in Subscribers : ws_state[s] # "unconnected"})
                  ELSE nstart[r]]

SpecHubHistory == InitHub /\ [][NextHub /\ RecordStart /\ UNCHANGED <<capVars, auxVars>>]_vars

(***************************************************************************)
(* Claims about the broadcast hub                                          *)
(***************************************************************************)

\* C2: publishing never blocks the publisher on a subscriber's send: the
\* publisher is never still inside its publish call while a send of that
\* publish is awaiting completion.
C2_PublishNeverBlocks == ~(pub_pc = "blocked" /\ \E r \in Records : task[r].pc = "sending")

\* C8: a subscriber that has received two records received them in the order
\* in which they were published.
C8_SubscriberOrder ==
    \A s \in Subscribers : \A r1, r2 \in Records :
        (r1 < r2 /\ r1 \in Range(received[s]) /\ r2 \in Range(received[s]))
            => IndexOf(received[s], r1) < IndexOf(received[s], r2)

\* C9: once a publish in which a send failed has finished, the failed
\* subscribers are no longer registered, and every other subscriber that was
\* registered when the publish started and is still open has received the
\* record and is still registered.
C9_FailedSendDropsOnlyThatSubscriber ==
    \A r \in Records :
        (task[r].pc = "done" /\ task[r].disconnected # <<>>)
            => /\ \A s \in Range(task[r].disconnected) : s \notin Range(active_clients)
               /\ \A s \in 1..nstart[r] :
                      ws_state[s] = "open" => (r \in Range(received[s]) /\ s \in Range(active_clients))

\* C10: no subscriber receives the same record more than once.
C10_AtMostOnce == \A s \in Subscribers : \A r \in Records : Count(received[s], r) <= 1

\* C10 witness: a subscriber has received two records while another
\* subscriber has disconnected and been unregistered.
C10_Witness == \E s, t \in Subscribers : Len(received[s]) >= 2 /\ ws_state[t] = "closed"

(***************************************************************************)
(* Claims about the transport tracker                                      *)
(***************************************************************************)

\* C5: an update carrying unknown leaves the tracker as it was, and a
\* connection for which get_transport answers a known transport never goes
\* back to unknown.
C5_UnknownNeverOverwrites ==
    [][/\ (last_call'.op = "update_transport" /\ last_call'.transport = UNKNOWN) => transport_tracker' = transport_tracker
       /\ \A src, dst \in Endpoints :
              GetTransport(transport_tracker, src, dst) # UNKNOWN => GetTransport(transport_tracker', src, dst) # UNKNOWN]_vars

\* C5 witness: an update carrying unknown was applied to a connection that
\* was classified before it.
C5_Witness ==
    /\ last_call.op = "update_transport"
    /\ last_call.transport = UNKNOWN
    /\ last_call.before # UNKNOWN
    /\ <<last_call.src, last_call.dst>> \in DOMAIN transport_tracker.transports

(***************************************************************************)
(* Claims about the reassembler and the packet callback                    *)
(***************************************************************************)
EmittedCount(text) == Cardinality({i \in 1..Len(emitted) : emitted[i].message = text})

\* C1: over the packets of one SSE response the reassembler never emits an
\* object of the response twice, and once all bytes have arrived it has
\* emitted every object exactly once.
C1_SseExactlyOnce ==
    \A content \in ObjectsOf(response) :
        /\ EmittedCount(Json(content)) <= 1
        /\ sent = Len(response) => EmittedCount(Json(content)) = 1

\* C3: no exception leaves packet_callback, whatever the payload.
C3_CallbackNeverRaises == ~crashed

\* the direction rule: text from an HTTP response is incoming, text from an
\* HTTP request body is outgoing, raw text goes by its JSON-RPC shape
ExpectedDirection(rec) ==
    IF rec.origin = "response" THEN INCOMING
    ELSE IF rec.origin = "request" THEN OUTGOING
    ELSE ShapeDirection(rec.message)

\* C4: every record has the direction the rule gives it.
C4_DirectionRule == \A i \in 1..Len(records) : records[i].direction = ExpectedDirection(records[i])

\* C6: a packet whose tracker update is a weak inference leaves a
\* classification that was known before it as it was.
C6_WeakNeverContradicts ==
    (last_call.op = "packet" /\ last_call.weak /\ last_call.before # UNKNOWN) => last_call.transport = last_call.before

\* C7: every record of a connection first seen after the server endpoint was
\* marked http_sse is tagged http_sse.
C7_NewConnectionInherits == \A i \in 1..Len(records) : records[i].inherits => records[i].transport_type = HTTP_SSE

(***************************************************************************)
(* Growth of the reassembly buffers.  Only the length of a buffer is kept. *)
(***************************************************************************)
MaxPayload == 65536

\* lengths of the TCP payloads tried
PayloadSizes == {MaxPayload \div 2, MaxPayload}

\* the limit of process_ws_packet: 1024 * 1024
BUFFER_LIMIT == 1024 * 1024

\* HTTPStream.add_response_data on a stream whose headers are parsed: the
\* payload is appended (process_packet, the SSE and the catch-all branches)
BodyData(n) ==
    /\ buffer_len <= BUFFER_LIMIT
    /\ buffer_len' = buffer_len + n
    /\ UNCHANGED ws_buffer_len

\* HTTPStream.add_request: the next request on the connection empties the buffer
RequestData ==
    /\ buffer_len' = 0
    /\ UNCHANGED ws_buffer_len

\* process_ws_packet: append, drop the bytes of the complete frames, and
\* clear a buffer that is left above the limit
WsData(n, consumed) ==
    /\ consumed <= ws_buffer_len + n
    /\ ws_buffer_len' = IF ws_buffer_len + n - consumed > BUFFER_LIMIT THEN 0 ELSE ws_buffer_len + n - consumed
    /\ UNCHANGED buffer_len

InitBuffer == HubStart /\ has_loop = FALSE /\ CaptureStart /\ AuxStart

NextBuffer ==
    \/ \E n \in PayloadSizes : BodyData(n)
    \/ RequestData
    \/ \E n \in PayloadSizes : \E consumed \in {0, n} : WsData(n, consumed)

SpecBuffer == InitBuffer /\ [][NextBuffer /\ UNCHANGED <<hubVars, capVars, wrapVars, lifeVars, regVars, exclVars, clsVars, storeVars, mcpVars, drainVars>>]_vars

\* C11: after a packet has been processed, no connection's reassembly buffer
\* is longer than the cap of 1 MiB.
C11_BufferBounded == buffer_len <= BUFFER_LIMIT /\ ws_buffer_len <= BUFFER_LIMIT

(***************************************************************************)
(* One non-chunked, non-SSE response with a Content-Length, its body       *)
(* arriving in several TCP payloads                                        *)
(***************************************************************************)
JsonHeaders == <<"RESP_json">> \o CRLFCRLF

\* the responses tried: a JSON-RPC object, with and without a final newline
JsonResponses ==
    {JsonHeaders \o Json(c) : c \in JsonRpcContents} \cup {JsonHeaders \o Json(c) \o <<LF>> : c \in JsonRpcContents}

\* the body of a response: what follows the blank line
BodyOf(resp) == From(resp, Find(resp, CRLFCRLF) + 4)

InitBody ==
    /\ HubStart /\ has_loop = FALSE /\ AuxStart
    /\ streams = EmptyDict
    /\ transport_tracker = NewTracker
    /\ records = <<>>
    /\ crashed = FALSE
    /\ npackets = 0
    /\ last_call = NoCall
    /\ emitted = <<>>
    /\ response \in JsonResponses
    /\ sent = 0

NextBody == \E k \in 1..Len(response) : Deliver(k)

SpecBody == InitBody /\ [][NextBody /\ UNCHANGED <<hubVars, auxVars>>]_vars

\* C12: nothing is recorded while bytes of the body are still missing, and
\* once the Content-Length bytes have arrived the body is recorded as exactly
\* one message.
C12_ContentLengthBody ==
    /\ sent < Len(response) => records = <<>>
    /\ sent = Len(response) => (Len(records) = 1 /\ Strip(records[1].message) = Strip(BodyOf(response)))

(***************************************************************************)
(* A well-formed response after a malformed response or a mid-stream       *)
(* catch on the same connection                                            *)
(***************************************************************************)

\* what the server's side of the connection shows first: a response whose
\* header lines are garbled, a response cut before the blank line, or the
\* tail of a response whose beginning was not captured
Disturbances ==
    { <<"RESP_garbled">> \o CRLFCRLF \o <<"bare">>,
      <<"RESP_garbled">> \o CRLF,
      <<"res2", "}">> \o LFLF }

\* the requests the client may send before the next response
NextRequests == {<<"GET_sse">> \o CRLFCRLF, <<"POST_dual">> \o CRLFCRLF \o Json("req"), <<"POST_none">> \o CRLFCRLF \o Json("req")}

\* the well-formed responses tried: one event, with "\n" and with "\r\n"
\* line ends, and one event in one chunk
NextResponses ==
    { SseHeaders \o Event("res1"),
      SseHeaders \o EventCrlf("res1"),
      ChunkedSseHeaders \o Chunk(Event("res1")) \o LastChunk }

Disturb(payload) ==
    /\ npackets = 0
    /\ PacketCallback([src |-> Server, dst |-> 1, payload |-> payload])
    /\ UNCHANGED <<response, sent>>

Request(payload) ==
    /\ npackets = 1
    /\ PacketCallback([src |-> 1, dst |-> Server, payload |-> payload])
    /\ UNCHANGED <<response, sent>>

\* the well-formed response follows
DeliverNext(k) == npackets >= 1 /\ Deliver(k)

InitRecover ==
    /\ HubStart /\ has_loop = FALSE /\ AuxStart
    /\ streams = EmptyDict
    /\ transport_tracker = NewTracker
    /\ records = <<>>
    /\ crashed = FALSE
    /\ npackets = 0
    /\ last_call = NoCall
    /\ emitted = <<>>
    /\ response \in NextResponses
    /\ sent = 0

NextRecover ==
    \/ \E payload \in Disturbances : Disturb(payload)
    \/ \E payload \in NextRequests : Request(payload)
    \/ \E k \in 1..Len(response) : DeliverNext(k)

SpecRecover == InitRecover /\ [][NextRecover /\ UNCHANGED <<hubVars, auxVars>>]_vars

\* the JSON-RPC objects found in the recorded messages
RecordedObjects == UNION {ObjectsOf(records[i].message) : i \in 1..Len(records)}

\* C13: once the well-formed response that follows a malformed response or
\* a mid-stream catch has arrived completely, each of its JSON-RPC messages
\* has been recorded.
C13_NextResponseStillParsed == sent = Len(response) => ObjectsOf(response) \subseteq RecordedObjects

(***************************************************************************)
(* The stdio wrapper: MCPWrapper._forward_stdout (wrapper.py)              *)
(***************************************************************************)
MaxOutput == 7

\* a byte that is not valid UTF-8
BAD == "bad"

\* json.dumps(msg): the object written again with the separators ", " and
\* ": "; the text of the child is written without spaces
JsonDumps(content) == <<"{", content \o " spaced", "}">>

\* the row _log_jsonrpc_message writes for a message read from the child
StdioEntry(content) ==
    [src |-> "mcp-server", dst |-> "mcp-client", direction |-> INCOMING, message |-> JsonDumps(content), transport_type |-> STDIO]

\* _try_parse_json and _log_jsonrpc_message: the rows added for one line;
\* store_ok is whether log_message returns (an exception of log_message is
\* caught in _log_jsonrpc_message)
TryParseJson(line, store_ok) ==
    IF JsonLoads(line) \in JsonRpcContents /\ store_ok THEN <<StdioEntry(JsonLoads(line))>> ELSE <<>>

\* the state of the loop of _forward_stdout
Loop(out, buf, recs) == [forwarded |-> out, buffer |-> buf, records |-> recs]

\* one iteration of the loop for the character char
ForwardChar(st, char, store_ok) ==
    IF char = LF
    THEN Loop(Append(st.forwarded, char), <<>>,
              IF Strip(Append(st.buffer, char)) # <<>> THEN st.records \o TryParseJson(Strip(Append(st.buffer, char)), store_ok) ELSE st.records)
    ELSE Loop(Append(st.forwarded, char), Append(st.buffer, char), st.records)

RECURSIVE ForwardChars(_, _, _)
ForwardChars(st, chars, store_ok) ==
    IF chars = <<>> THEN st ELSE ForwardChars(ForwardChar(st, Head(chars), store_ok), Tail(chars), store_ok)

\* proc.stdout is a text stream with universal newlines: "\r\n" and "\r" are
\* read as "\n", and a "\r" is held back until the next byte is known
TextRead(byte, cr) ==
    IF byte = CR THEN (IF cr THEN <<LF>> ELSE <<>>)
    ELSE IF byte = LF THEN <<LF>>
    ELSE IF cr THEN <<LF, byte>> ELSE <<byte>>

Forwarded(st) ==
    /\ forwarded' = st.forwarded
    /\ stdout_buffer' = st.buffer
    /\ stdio_records' = st.records

\* the child writes one byte and the thread reads on; a byte that cannot be
\* decoded raises UnicodeDecodeError in read, which ends the loop
ForwardStdout(byte, store_ok) ==
    /\ child = "running"
    /\ Len(child_stdout) < MaxOutput
    /\ child_stdout' = Append(child_stdout, byte)
    /\ IF wrapper = "waiting" /\ stdout_thread = "reading" /\ byte # BAD
       THEN /\ Forwarded(ForwardChars(Loop(forwarded, stdout_buffer, stdio_records), TextRead(byte, pendingcr), store_ok))
            /\ pendingcr' = (byte = CR)
            /\ UNCHANGED stdout_thread
       ELSE /\ stdout_thread' = "stopped"
            /\ UNCHANGED <<forwarded, stdout_buffer, stdio_records, pendingcr>>

\* the output of a child that writes JSON objects, newlines and other text
ScanBytes == {"{", "}", LF, "req", "x"}

InitScan == HubStart /\ has_loop = FALSE /\ CaptureStart /\ AuxStart

NextScan == \E byte \in ScanBytes : ForwardStdout(byte, TRUE)

SpecScan == InitScan /\ [][NextScan /\ UNCHANGED <<hubVars, capVars, bufVars, lifeVars, regVars, exclVars, clsVars, storeVars, mcpVars, drainVars>>]_vars

\* the number of complete top-level JSON-RPC objects in a stream: the text
\* from a "{" at depth zero to the "}" that closes it, line ends aside
RECURSIVE TopLevelObjects(_, _, _)
TopLevelObjects(s, depth, cur) ==
    IF s = <<>> THEN 0
    ELSE IF Head(s) = "{" THEN TopLevelObjects(Tail(s), depth + 1, Append(cur, "{"))
    ELSE IF Head(s) = "}" /\ depth = 1
        THEN (IF Len(cur) = 2 /\ cur[2] \in JsonRpcContents THEN 1 ELSE 0) + TopLevelObjects(Tail(s), 0, <<>>)
    ELSE IF Head(s) = "}" /\ depth > 1 THEN TopLevelObjects(Tail(s), depth - 1, Append(cur, "}"))
    ELSE IF depth = 0 \/ Head(s) \in Whitespace THEN TopLevelObjects(Tail(s), depth, cur)
    ELSE TopLevelObjects(Tail(s), depth, Append(cur, Head(s)))

CompleteObjects(s) == TopLevelObjects(s, 0, <<>>)

\* C14: whenever the child's output so far ends with a newline, the wrapper
\* has recorded exactly one record for each complete top-level JSON-RPC
\* object in it, wherever newlines fall.
C14_OneRecordPerObject ==
    (child_stdout # <<>> /\ child_stdout[Len(child_stdout)] = LF) => Len(stdio_records) = CompleteObjects(child_stdout)

\* the output of a child that writes any bytes: JSON, carriage returns,
\* bytes that are not UTF-8
ForwardBytes == {"{", "req", "}", LF, CR, BAD}

InitForward == HubStart /\ has_loop = FALSE /\ CaptureStart /\ AuxStart

NextForward == \E byte \in ForwardBytes : \E store_ok \in BOOLEAN : ForwardStdout(byte, store_ok)

SpecForward == InitForward /\ [][NextForward /\ UNCHANGED <<hubVars, capVars, bufVars, lifeVars, regVars, exclVars, clsVars, storeVars, mcpVars, drainVars>>]_vars

\* the bytes that have left the child and reached the wrapper's stdout or are
\* held in the text layer of the pipe
Delivered == forwarded \o (IF pendingcr THEN <<CR>> ELSE <<>>)

\* C16: every byte the child has written to stdout has been forwarded to the
\* wrapper's stdout, unmodified and in order, whatever the scanner and the
\* store did with it.
C16_ForwardedUnmodified == Delivered = child_stdout

(***************************************************************************)
(* The life of the wrapper and its child: run_wrapper, MCPWrapper.start    *)
(* and MCPWrapper.stop (wrapper.py)                                        *)
(***************************************************************************)
MaxExitCode == 2

\* the exit codes of a child that exits on its own
ExitCodes == 0..MaxExitCode

SIGINT == "SIGINT"
SIGTERM == "SIGTERM"
SIGKILL == "SIGKILL"

\* the exit status sys.exit(130) and "return 130" give
INTERRUPTED == 130

\* the output of the child in the runs of its whole life
LifeBytes == {"x", LF}

\* run_wrapper has installed its signal handlers and calls wrapper.start()
InitLife ==
    /\ HubStart /\ has_loop = FALSE /\ CaptureStart /\ BufferStart /\ WrapperStart /\ RegistryStart /\ SnifferStart /\ ClassifierStart /\ StoreStart /\ McpStart /\ ThreadsStart
    /\ wrapper = "starting"
    /\ child = "none"
    /\ returncode = NoCode
    /\ exit_status = NoCode
    /\ child_signals = {}
    /\ signalled = "none"

\* subprocess.Popen returns and the three threads are started
Popen ==
    /\ wrapper = "starting"
    /\ wrapper' = "waiting"
    /\ child' = "running"
    /\ UNCHANGED <<returncode, exit_status, child_signals, signalled, wrapVars>>

\* MCPWrapper.stop: terminate, wait five seconds, kill; graceful is whether
\* the child exits within the five seconds
Stop(graceful) ==
    IF child = "running"
    THEN /\ child_signals' = (IF graceful THEN {SIGTERM} ELSE {SIGTERM, SIGKILL})
         /\ child' = "exited"
         /\ returncode' = (IF graceful THEN -15 ELSE -9)
    ELSE UNCHANGED <<child_signals, child, returncode>>

\* subprocess.Popen raises (no such command): "except Exception" calls stop()
\* and start() returns 1
PopenRaises(graceful) ==
    /\ wrapper = "starting"
    /\ Stop(graceful)
    /\ wrapper' = "exited"
    /\ exit_status' = 1
    /\ UNCHANGED <<signalled, wrapVars>>

\* the child exits on its own with exit code c
ChildExit(c) ==
    /\ child = "running"
    /\ child' = "exited"
    /\ returncode' = c
    /\ UNCHANGED <<wrapper, exit_status, child_signals, signalled, wrapVars>>

\* proc.wait() returns the child's exit code and start() returns it, which
\* the wrap command passes to sys.exit
WaitReturnsZero ==
    /\ wrapper = "waiting"
    /\ child = "exited"
    /\ wrapper' = "exited"
    /\ exit_status' = 0
    /\ UNCHANGED <<child, returncode, child_signals, signalled, wrapVars>>

WaitReturns ==
    /\ wrapper = "waiting"
    /\ child = "exited"
    /\ wrapper' = "exited"
    /\ exit_status' = returncode
    /\ UNCHANGED <<child, returncode, child_signals, signalled, wrapVars>>

\* SIGINT or SIGTERM arrives while the main thread is in proc.wait(): the
\* handler calls sys.exit(130); SystemExit is neither KeyboardInterrupt nor
\* an Exception, so no except clause of start() runs and the process exits
SignalHandler(signum) ==
    /\ wrapper = "waiting"
    /\ signalled' = signum
    /\ wrapper' = "exited"
    /\ exit_status' = INTERRUPTED
    /\ UNCHANGED <<child, returncode, child_signals, wrapVars>>

NextLife ==
    \/ Popen
    \/ \E graceful \in BOOLEAN : PopenRaises(graceful)
    \/ \E c \in ExitCodes : ChildExit(c)
    \/ WaitReturns
    \/ \E signum \in {SIGINT, SIGTERM} : SignalHandler(signum)
    \/ \E byte \in LifeBytes : ForwardStdout(byte, TRUE) /\ UNCHANGED lifeVars

SpecLife == InitLife /\ [][NextLife /\ UNCHANGED <<hubVars, capVars, bufVars, regVars, exclVars, clsVars, storeVars, mcpVars, drainVars>>]_vars

\* C15: when the wrapper has exited after SIGINT or SIGTERM, it exited with
\* status 130 and a child that is still running has been child_signals SIGTERM.
C15_SignalReachesChild ==
    (wrapper = "exited" /\ signalled # "none") =>
        (exit_status = INTERRUPTED /\ (child = "running" => SIGTERM \in child_signals))

\* C17: when the child has exited on its own with exit code c and the
\* wrapper, not interrupted by a signal, has exited too, the wrapper's exit
\* status is c.
C17_ChildExitCode ==
    (wrapper = "exited" /\ child = "exited" /\ child_signals = {} /\ signalled = "none") => exit_status = returncode

C17_Witness ==
    wrapper = "exited" /\ child = "exited" /\ child_signals = {} /\ signalled = "none" /\ returncode = MaxExitCode /\ forwarded # <<>>

(***************************************************************************)
(* The stored message text                                                 *)
(***************************************************************************)
\* the lines the child has written, without the white space around them
ObservedLines == {Strip(SplitLines(child_stdout)[i]) : i \in 1..Len(SplitLines(child_stdout))}

\* C18: the message of every record the wrapper has stored is the text of a
\* line of the child's output, character for character.
C18_MessageAsObserved ==
    \A i \in 1..Len(stdio_records) : stdio_records[i].message \in ObservedLines

\* C19: the message of every record of the capture parses as JSON and is a
\* JSON-RPC 2.0 message.
C19_RecordsAreJsonRpc ==
    \A i \in 1..Len(records) : JsonLoads(records[i].message) \in JsonRpcContents

(***************************************************************************)
(* The server info cached per connection: _server_registry (sniffer.py)    *)
(***************************************************************************)
\* the metadata of a row without and with server_name and server_version
NO_METADATA == "none"
SERVER_INFO == "server_name, server_version"

\* _get_connection_id
ConnectionId(src, dst) == <<src, dst>>

\* extract_server_info: "res1" is the initialize response, whose result has
\* a serverInfo
HasServerInfo(message) == JsonLoads(message) = "res1"

\* the registry after the row was built: a row that was taken for a response
\* and has a serverInfo caches it under the id from its destination to its
\* source
RegistryAfter(registry, row) ==
    IF row.direction = INCOMING /\ HasServerInfo(row.message)
    THEN registry \cup {ConnectionId(row.dst, row.src)}
    ELSE registry

\* the metadata of the row: the server info cached under the id from its
\* source to its destination
MetadataOf(registry, row) ==
    IF ConnectionId(row.src, row.dst) \in registry THEN SERVER_INFO ELSE NO_METADATA

\* the registry and the metadata after the rows, in the order they are built
RECURSIVE BuildMetadata(_, _, _)
BuildMetadata(registry, metas, rows) ==
    IF rows = <<>> THEN [registry |-> registry, metadata |-> metas]
    ELSE BuildMetadata(RegistryAfter(registry, Head(rows)),
                       Append(metas, MetadataOf(RegistryAfter(registry, Head(rows)), Head(rows))),
                       Tail(rows))

Registered(built) ==
    /\ server_registry' = built.registry
    /\ metadata' = built.metadata

\* packet_callback with the server registry
CaptureMetadata(pkt) ==
    /\ Capture(pkt)
    /\ Registered(BuildMetadata(server_registry, metadata, SubSeq(records', Len(records) + 1, Len(records'))))

InitRegistry == InitCapture

NextRegistry == \E pkt \in Packets : CaptureMetadata(pkt)

SpecRegistry == InitRegistry /\ [][NextRegistry /\ UNCHANGED <<hubVars, bufVars, wrapVars, lifeVars, exclVars, clsVars, storeVars, mcpVars, drainVars>>]_vars

SameConnection(a, b) == {a.src, a.dst} = {b.src, b.dst}

\* C20: every record that follows, on the same connection, a captured
\* initialize response with a serverInfo carries the server's name and
\* version in its metadata, in either direction.
C20_LaterRecordsCarryServerInfo ==
    \A i \in 1..Len(records) : \A j \in (i + 1)..Len(records) :
        (records[i].direction = INCOMING /\ HasServerInfo(records[i].message) /\ SameConnection(records[i], records[j]))
            => metadata[j] = SERVER_INFO

(***************************************************************************)
(* Excluded ports: start_sniffer and packet_callback (sniffer.py), the     *)
(* sniff and web commands (cli.py)                                         *)
(***************************************************************************)
\* the default of --mcp-port
McpPort == 8765

\* the port given with --port
MonitoredPort == 3000

\* the ports a client connects from
ClientPortBase == 50000

ServerPorts == {MonitoredPort, McpPort}

\* the TCP port of an endpoint
PortOf(e) == IF e = Server THEN server_port ELSE ClientPortBase + e

\* lines 60-62 of packet_callback
ExcludedSourceOnly(pkt) ==
    excluded_ports # {} /\ PortOf(pkt.src) \in excluded_ports

Excluded(pkt) ==
    excluded_ports # {} /\ (PortOf(pkt.src) \in excluded_ports \/ PortOf(pkt.dst) \in excluded_ports)

\* the payloads observed: a request that opens an SSE stream, a request and
\* a response as bare JSON, an SSE response
ObservedPackets ==
    [src : Clients, dst : {Server}, payload : {<<"GET_sse">> \o CRLFCRLF, Json("req")}]
        \cup [src : {Server}, dst : Clients, payload : {Json("res1"), SseHeaders \o <<DATA>> \o Json("res1") \o LFLF}]

\* start_sniffer
StartSniffer(excluded) ==
    /\ sniffer = "idle"
    /\ sniffer' = "sniffing"
    /\ excluded_ports' = excluded
    /\ UNCHANGED <<cli, server_port, nskipped, capVars, regVars>>

\* packet_callback, from its first line
SniffedPacket(pkt) ==
    /\ sniffer = "sniffing"
    /\ IF Excluded(pkt)
       THEN /\ nskipped < MaxPackets
            /\ nskipped' = nskipped + 1
            /\ UNCHANGED <<capVars, regVars>>
       ELSE /\ CaptureMetadata(pkt)
            /\ UNCHANGED nskipped
    /\ UNCHANGED <<sniffer, cli, excluded_ports, server_port>>

\* the capture observes the connections of one server port
InitExclude ==
    /\ HubStart /\ has_loop = FALSE /\ CaptureStart /\ BufferStart /\ WrapperStart /\ ChildRunning /\ RegistryStart /\ ClassifierStart /\ StoreStart /\ McpStart /\ ThreadsStart
    /\ sniffer = "idle"
    /\ cli = NoCommand
    /\ excluded_ports = {}
    /\ server_port \in ServerPorts
    /\ nskipped = 0

NextExclude ==
    \/ \E excluded \in SUBSET ServerPorts : StartSniffer(excluded)
    \/ \E pkt \in ObservedPackets : SniffedPacket(pkt)

SpecExclude == InitExclude /\ [][NextExclude /\ UNCHANGED <<hubVars, bufVars, wrapVars, lifeVars, clsVars, storeVars, mcpVars, drainVars>>]_vars

\* C21: while the port of the observed server is excluded, the packets of
\* its connections leave no record and no reassembler, transport-tracker or
\* server-registry state.
C21_ExcludedPacketsSkipped ==
    (sniffer = "sniffing" /\ server_port \in excluded_ports) =>
        /\ records = <<>>
        /\ emitted = <<>>
        /\ streams = EmptyDict
        /\ transport_tracker = NewTracker
        /\ server_registry = {}
        /\ metadata = <<>>

C21_Witness ==
    sniffer = "sniffing" /\ server_port \in excluded_ports /\ nskipped = MaxPackets

\* the sniff and web commands: excluded_ports is the empty list, whatever
\* --with-mcp and --mcp-transport are
CommandExcludedPorts(with_mcp, mcp_transport) == {}

\* mcphawk sniff / mcphawk web with the options given
Command(with_mcp, mcp_transport) ==
    /\ sniffer = "idle"
    /\ cli' = [with_mcp |-> with_mcp, mcp_transport |-> mcp_transport]
    /\ sniffer' = "sniffing"
    /\ excluded_ports' = CommandExcludedPorts(with_mcp, mcp_transport)
    /\ UNCHANGED <<server_port, nskipped, capVars, regVars>>

NextCommand ==
    \/ \E with_mcp \in BOOLEAN : \E mcp_transport \in {"http", "stdio"} : Command(with_mcp, mcp_transport)
    \/ \E pkt \in ObservedPackets : SniffedPacket(pkt)

SpecCommand == InitExclude /\ [][NextCommand /\ UNCHANGED <<hubVars, bufVars, wrapVars, lifeVars, clsVars, storeVars, mcpVars, drainVars>>]_vars

\* C22: when the command co-hosts its MCP server over HTTP, the traffic on
\* the MCP port produces no record.
C22_OwnTrafficNotRecorded ==
    (cli.with_mcp /\ cli.mcp_transport = "http" /\ server_port = McpPort) => records = <<>>

(***************************************************************************)
(* Message-type classification: get_message_type (utils.py)                *)
(***************************************************************************)
Members == {"method", "result", "error", "id"}

\* the messages tried: every combination of members in an object with
\* "jsonrpc" "2.0", "1.0" or absent, and the texts that are no object
Messages ==
    {Message("object", v, m) : v \in {"2.0", "1.0", "none"}, m \in SUBSET Members}
        \cup {Message(j, "none", {}) : j \in {"invalid", "empty", "array", "string"}}

\* get_message_type: the type, or "AttributeError" when parsed.get is called
\* on a value that is no object
GetMessageType(m) ==
    IF m.json \in {"invalid", "empty"} THEN "unknown"
    ELSE IF m.json # "object" THEN "AttributeError"
    ELSE IF m.jsonrpc # "2.0" THEN "unknown"
    ELSE IF "error" \in m.members /\ "id" \in m.members THEN "error"
    ELSE IF "result" \in m.members /\ "id" \in m.members THEN "response"
    ELSE IF "method" \in m.members /\ "id" \in m.members THEN "request"
    ELSE IF "method" \in m.members /\ "id" \notin m.members THEN "notification"
    ELSE "unknown"

\* a caller classifies the message
Classify ==
    /\ message_type = "none"
    /\ message_type' = GetMessageType(message_in)
    /\ UNCHANGED message_in

InitClassify ==
    /\ HubStart /\ has_loop = FALSE /\ CaptureStart /\ BufferStart /\ WrapperStart /\ ChildRunning /\ RegistryStart /\ SnifferStart /\ StoreStart /\ McpStart /\ ThreadsStart
    /\ message_in \in Messages
    /\ message_type = "none"

NextClassify == Classify

SpecClassify == InitClassify /\ [][NextClassify /\ UNCHANGED <<hubVars, capVars, bufVars, wrapVars, lifeVars, regVars, exclVars, storeVars, mcpVars, drainVars>>]_vars

\* the type the rules give: one of method, result and error decides, with
\* or without id; several of them at once give unknown
RuleType(m) ==
    IF m.json # "object" \/ m.jsonrpc # "2.0" THEN "unknown"
    ELSE IF m.members = {"method", "id"} THEN "request"
    ELSE IF m.members = {"method"} THEN "notification"
    ELSE IF m.members = {"result", "id"} THEN "response"
    ELSE IF m.members = {"error", "id"} THEN "error"
    ELSE "unknown"

\* C27: for every message text the classification returns the type the
\* rules give.
C27_ClassificationFollowsRules ==
    message_type # "none" => message_type = RuleType(message_in)

(***************************************************************************)
(* The store: the table logs and log_message (logger.py)                   *)
(***************************************************************************)
MaxLogs == 3
MaxLogId == 3

\* the values of log_id, ordered as SQLite orders the texts; callers draw
\* them with uuid.uuid4
LogIds == 1..MaxLogId

\* an entry without log_id
NoId == 0

\* the start predicates of the other parts
OtherStart ==
    /\ HubStart /\ has_loop = FALSE /\ CaptureStart /\ BufferStart /\ WrapperStart /\ ChildRunning /\ RegistryStart
    /\ SnifferStart /\ ClassifierStart /\ McpStart /\ ThreadsStart

\* the messages of the rows: a request, a response and an error response
RequestMessage == Message("object", "2.0", {"method", "id"})
ResponseMessage == Message("object", "2.0", {"result", "id"})
ErrorMessage == Message("object", "2.0", {"error", "id"})

LogRow(log_id, timestamp, message, transport_type) ==
    [log_id |-> log_id, timestamp |-> timestamp, message |-> message, transport_type |-> transport_type]

IdsOf(table) == {table[i].log_id : i \in 1..Len(table)}

\* the INSERT of log_message into a table whose log_id is the PRIMARY KEY
InsertUnkeyed(table, entry) == [outcome |-> "ok", table |-> Append(table, entry)]

Insert(table, entry) ==
    IF entry.log_id \in IdsOf(table)
    THEN [outcome |-> "IntegrityError", table |-> table]
    ELSE [outcome |-> "ok", table |-> Append(table, entry)]

\* log_message: ValueError without log_id, else the INSERT and the commit
Logged(entry, done) ==
    /\ logs' = done.table
    /\ store_call' = [outcome |-> done.outcome, log_id |-> entry.log_id, before |-> logs]

LogMessage(entry) ==
    /\ Len(logs) < MaxLogs
    /\ now < MaxLogs + 1
    /\ now' = now + 1
    /\ IF entry.log_id = NoId
       THEN Logged(entry, [outcome |-> "ValueError", table |-> logs])
       ELSE Logged(entry, Insert(logs, entry))
    /\ query_call' = NoQuery
    /\ metric_call' = NoMetric

InitStore == OtherStart /\ StoreStart

NextStore ==
    \E log_id \in LogIds \cup {NoId} : \E message \in {RequestMessage, ResponseMessage} : \E transport \in {STREAMABLE_HTTP, STDIO} :
        LogMessage(LogRow(log_id, now, message, transport))

SpecStore == InitStore /\ [][NextStore /\ UNCHANGED <<hubVars, capVars, bufVars, wrapVars, lifeVars, regVars, exclVars, clsVars, mcpVars, drainVars>>]_vars

\* C23: no two rows have the same log_id; an insert of a log_id that is in
\* the store fails and leaves the store as it was, and any other insert with
\* a log_id appends its row.
C23_LogIdUnique ==
    /\ \A i, j \in 1..Len(logs) : logs[i].log_id = logs[j].log_id => i = j
    /\ store_call.outcome = "IntegrityError" <=> (store_call.log_id \in IdsOf(store_call.before))
    /\ store_call.outcome = "IntegrityError" => logs = store_call.before
    /\ store_call.outcome = "ok" =>
           /\ Len(logs) = Len(store_call.before) + 1
           /\ SubSeq(logs, 1, Len(store_call.before)) = store_call.before
           /\ logs[Len(logs)].log_id = store_call.log_id

C23_Witness ==
    store_call.outcome = "IntegrityError" /\ Len(logs) >= 2

(***************************************************************************)
(* Queries: fetch_logs, fetch_logs_with_offset, search_logs (logger.py)    *)
(* and the query_traffic tool (mcp_server/server.py)                       *)
(***************************************************************************)
MaxLimit == 2

\* a message with the word its text holds
TextMessage(m, text) == [json |-> m.json, jsonrpc |-> m.jsonrpc, members |-> m.members, text |-> text]

\* the words of the texts and of the search terms, and their lower case
Words == {"Ping", "ping", "list"}

Lower(word) == IF word = "Ping" THEN "ping" ELSE word

\* message LIKE '%term%': LIKE takes no account of the case of ASCII letters
Like(text, term) == Lower(text) = Lower(term)

Indices(table) == 1..Len(table)

\* ORDER BY log_id DESC
RECURSIVE OrderByLogIdDesc(_, _)
OrderByLogIdDesc(table, rest) ==
    IF rest = {} THEN <<>>
    ELSE LET top == CHOOSE i \in rest : \A j \in rest : table[j].log_id <= table[i].log_id
         IN <<table[top]>> \o OrderByLogIdDesc(table, rest \ {top})

\* ORDER BY timestamp DESC
RECURSIVE OrderByTimestampDesc(_, _)
OrderByTimestampDesc(table, rest) ==
    IF rest = {} THEN <<>>
    ELSE LET top == CHOOSE i \in rest : \A j \in rest : table[j].timestamp <= table[i].timestamp
         IN <<table[top]>> \o OrderByTimestampDesc(table, rest \ {top})

\* LIMIT limit OFFSET offset
LimitOffset(rows, limit, offset) == UpTo(From(rows, offset), limit)

\* the rows of a sequence that satisfy keep, in their order
RECURSIVE Filter(_, _)
Filter(rows, keep) ==
    IF rows = <<>> THEN <<>>
    ELSE (IF Head(rows) \in keep THEN <<Head(rows)>> ELSE <<>>) \o Filter(Tail(rows), keep)

RowsOf(table) == {table[i] : i \in Indices(table)}

\* fetch_logs
FetchLogs(table, limit) == LimitOffset(OrderByTimestampDesc(table, Indices(table)), limit, 0)

\* fetch_logs_with_offset
FetchLogsWithOffset(table, limit, offset) == LimitOffset(OrderByLogIdDesc(table, Indices(table)), limit, offset)

\* search_logs: the WHERE clause, ORDER BY log_id DESC and LIMIT run in
\* SQLite; the rows that come back are then filtered by message type
SearchLogs(table, term, msg_type, transport_type, limit) ==
    LET where == {i \in Indices(table) :
                    /\ (term # "" => Like(table[i].message.text, term))
                    /\ (transport_type # "" => table[i].transport_type = transport_type)}
        rows == LimitOffset(OrderByLogIdDesc(table, where), limit, 0)
    IN Filter(rows, {r \in RowsOf(table) : msg_type # "" => GetMessageType(r.message) = msg_type})

\* the query_traffic tool: the offset argument is not used
QueryTraffic(table, limit, offset) == FetchLogs(table, limit)

Queried(op, limit, offset, filter, result) ==
    /\ query_call' = [op |-> op, limit |-> limit, offset |-> offset, filter |-> filter, result |-> result]
    /\ UNCHANGED <<logs, now, store_call, metric_call>>

CallFetchLogsWithOffset(limit, offset) ==
    Queried("fetch_logs_with_offset", limit, offset, "none", FetchLogsWithOffset(logs, limit, offset))

CallSearchLogs(term, msg_type, transport_type, limit) ==
    Queried("search_logs", limit, 0, [term |-> term, message_type |-> msg_type, transport_type |-> transport_type],
            SearchLogs(logs, term, msg_type, transport_type, limit))

CallQueryTraffic(limit, offset) ==
    Queried("query_traffic", limit, offset, "none", QueryTraffic(logs, limit, offset))

\* the rows captured: requests and a response with their words, from the
\* wrapper and from the sniffer
QueryRows(log_id) ==
    {LogRow(log_id, now, TextMessage(RequestMessage, "Ping"), STDIO),
     LogRow(log_id, now, TextMessage(RequestMessage, "list"), STDIO),
     LogRow(log_id, now, TextMessage(ResponseMessage, "ping"), STREAMABLE_HTTP)}

InitQuery == OtherStart /\ StoreStart

NextQuery ==
    \/ \E log_id \in LogIds : \E entry \in QueryRows(log_id) : LogMessage(entry)
    \/ \E limit \in 1..MaxLimit : \E offset \in 0..MaxLogs : CallFetchLogsWithOffset(limit, offset)
    \/ \E term \in {"", "ping"} : \E msg_type \in {"", "request"} : \E transport_type \in {"", STDIO} : \E limit \in 1..MaxLimit :
          CallSearchLogs(term, msg_type, transport_type, limit)
    \/ \E limit \in 1..MaxLimit : \E offset \in 0..MaxLogs : CallQueryTraffic(limit, offset)

SpecQuery == InitQuery /\ [][NextQuery /\ UNCHANGED <<hubVars, capVars, bufVars, wrapVars, lifeVars, regVars, exclVars, clsVars, mcpVars, drainVars>>]_vars

\* the rows from the most recently captured to the oldest
RECURSIVE Reverse(_)
Reverse(rows) == IF rows = <<>> THEN <<>> ELSE Append(Reverse(Tail(rows)), Head(rows))

NewestFirst == Reverse(logs)

\* C24: a page of fetch_logs_with_offset is the part of the records, taken
\* from the most recently captured to the oldest, that starts after offset
\* records and has up to limit records; so the pages at offsets 0, limit,
\* 2*limit, ... hold every record once, newest first.
C24_PagesNewestFirst ==
    query_call.op = "fetch_logs_with_offset" =>
        query_call.result = LimitOffset(NewestFirst, query_call.limit, query_call.offset)

\* the rows that match the arguments of the last search
Matching ==
    {r \in RowsOf(logs) :
        /\ (query_call.filter.term # "" => Lower(r.message.text) = Lower(query_call.filter.term))
        /\ (query_call.filter.transport_type # "" => r.transport_type = query_call.filter.transport_type)
        /\ (query_call.filter.message_type # "" => GetMessageType(r.message) = query_call.filter.message_type)}

\* C25: search_logs returns the newest min(limit, M) of the M records that
\* contain the term and satisfy every filter given.
C25_SearchReturnsNewestMatches ==
    query_call.op = "search_logs" =>
        query_call.result = UpTo(Filter(NewestFirst, Matching), query_call.limit)

\* C26: the query_traffic tool returns the page of up to limit records that
\* starts offset records after the newest.
C26_QueryTrafficPages ==
    query_call.op = "query_traffic" =>
        query_call.result = LimitOffset(NewestFirst, query_call.limit, query_call.offset)

(***************************************************************************)
(* Metrics over the store: get_timeseries_metrics, get_performance_metrics *)
(* and get_error_timeline (web/metrics.py)                                 *)
(***************************************************************************)
MaxInterval == 2

\* the request id that every connection uses
RpcId == 1

\* a message with its id member, and a row with the connection it was
\* captured on
IdMessage(m, id) == [json |-> m.json, jsonrpc |-> m.jsonrpc, members |-> m.members, id |-> id]

ConnRow(log_id, timestamp, message, conn) ==
    [log_id |-> log_id, timestamp |-> timestamp, message |-> message, transport_type |-> STREAMABLE_HTTP, conn |-> conn]

\* the start of the bucket of a timestamp, in minutes
BucketTime(timestamp, interval) == timestamp - (timestamp % interval)

\* json.loads(message) succeeds and "error" in msg_data
HasErrorMember(m) == m.json = "object" /\ "error" \in m.members

CountOf(rows, keep) == Len(Filter(rows, keep))

\* the counters of get_timeseries_metrics for the rows of one bucket: a row
\* of type error adds one to errors, and a row with an error member adds one
\* to errors again
TimeseriesBucket(time, rows, all) ==
    [timestamp |-> time,
     requests |-> CountOf(rows, {r \in all : GetMessageType(r.message) = "request"}),
     responses |-> CountOf(rows, {r \in all : GetMessageType(r.message) = "response"}),
     notifications |-> CountOf(rows, {r \in all : GetMessageType(r.message) = "notification"}),
     errors |-> CountOf(rows, {r \in all : GetMessageType(r.message) = "error"})
                    + CountOf(rows, {r \in all : HasErrorMember(r.message)})]

\* the counters of get_error_timeline for the rows of one bucket
ErrorBucket(time, rows, all) ==
    LET errors == CountOf(rows, {r \in all : HasErrorMember(r.message)})
                      + CountOf(rows, {r \in all : GetMessageType(r.message) = "error"})
    IN [timestamp |-> time, errors |-> errors, total |-> Len(rows),
        error_rate |-> IF Len(rows) > 0 THEN (errors * 100) \div Len(rows) ELSE 0]

\* the bucket times of the rows, ascending
RECURSIVE Ascending(_)
Ascending(times) ==
    IF times = {} THEN <<>>
    ELSE LET first == CHOOSE t \in times : \A u \in times : t <= u
         IN <<first>> \o Ascending(times \ {first})

BucketTimes(table, interval) == Ascending({BucketTime(table[i].timestamp, interval) : i \in Indices(table)})

RowsIn(table, time, interval) == Filter(table, {r \in RowsOf(table) : BucketTime(r.timestamp, interval) = time})

\* get_timeseries_metrics over the whole store
GetTimeseriesMetrics(table, interval) ==
    [k \in 1..Len(BucketTimes(table, interval)) |->
        TimeseriesBucket(BucketTimes(table, interval)[k], RowsIn(table, BucketTimes(table, interval)[k], interval), RowsOf(table))]

\* get_error_timeline over the whole store
GetErrorTimeline(table, interval) ==
    [k \in 1..Len(BucketTimes(table, interval)) |->
        ErrorBucket(BucketTimes(table, interval)[k], RowsIn(table, BucketTimes(table, interval)[k], interval), RowsOf(table))]

\* the loop of get_performance_metrics over the rows in the order of their
\* timestamps: pending_requests maps an id to the timestamp of its request
RECURSIVE ResponseTimes(_, _)
ResponseTimes(rows, pending_requests) ==
    IF rows = <<>> THEN <<>>
    ELSE LET msg == Head(rows).message
         IN IF msg.json # "object" THEN ResponseTimes(Tail(rows), pending_requests)
            ELSE IF "method" \in msg.members /\ "id" \in msg.members
            THEN ResponseTimes(Tail(rows), [i \in DOMAIN pending_requests \cup {msg.id} |->
                                               IF i = msg.id THEN Head(rows).timestamp ELSE pending_requests[i]])
            ELSE IF ("result" \in msg.members \/ "error" \in msg.members) /\ "id" \in msg.members /\ msg.id \in DOMAIN pending_requests
            THEN <<Head(rows).timestamp - pending_requests[msg.id]>>
                     \o ResponseTimes(Tail(rows), [i \in DOMAIN pending_requests \ {msg.id} |-> pending_requests[i]])
            ELSE ResponseTimes(Tail(rows), pending_requests)

\* list.sort
RECURSIVE Sorted(_)
Sorted(xs) ==
    IF xs = <<>> THEN <<>>
    ELSE LET k == CHOOSE i \in 1..Len(xs) : \A j \in 1..Len(xs) : xs[i] <= xs[j]
         IN <<xs[k]>> \o Sorted(SubSeq(xs, 1, k - 1) \o SubSeq(xs, k + 1, Len(xs)))

\* get_performance_metrics over the whole store: the sorted response times
GetPerformanceMetrics(table) == Sorted(ResponseTimes(table, <<>>))

Measured(op, interval, result) ==
    /\ metric_call' = [op |-> op, interval |-> interval, result |-> result]
    /\ UNCHANGED <<logs, now, store_call, query_call>>

CallTimeseries(interval) == Measured("get_timeseries_metrics", interval, GetTimeseriesMetrics(logs, interval))

CallErrorTimeline(interval) == Measured("get_error_timeline", interval, GetErrorTimeline(logs, interval))

CallPerformance == Measured("get_performance_metrics", 0, GetPerformanceMetrics(logs))

\* the rows captured on the connections of the clients: requests, responses
\* and error responses, with the log_id their capture draws
MetricRows ==
    {ConnRow(Len(logs) + 1, now, IdMessage(m, RpcId), conn) : m \in {RequestMessage, ResponseMessage, ErrorMessage}, conn \in Clients}

InitMetrics == OtherStart /\ StoreStart

NextMetrics ==
    \/ \E entry \in MetricRows : LogMessage(entry)
    \/ \E interval \in 1..MaxInterval : CallTimeseries(interval)
    \/ \E interval \in 1..MaxInterval : CallErrorTimeline(interval)
    \/ CallPerformance

SpecMetrics == InitMetrics /\ [][NextMetrics /\ UNCHANGED <<hubVars, capVars, bufVars, wrapVars, lifeVars, regVars, exclVars, clsVars, mcpVars, drainVars>>]_vars

\* the response times matched within each connection
RECURSIVE PerConnection(_, _)
PerConnection(table, conns) ==
    IF conns = {} THEN <<>>
    ELSE LET c == CHOOSE c \in conns : TRUE
         IN ResponseTimes(Filter(table, {r \in RowsOf(table) : r.conn = c}), <<>>) \o PerConnection(table, conns \ {c})

\* C28: the latency samples of performance() are those of each request and
\* the response with its id that follows on the same connection, one sample
\* for each such pair.
C28_LatencyPerConnection ==
    metric_call.op = "get_performance_metrics" =>
        metric_call.result = Sorted(PerConnection(logs, {logs[i].conn : i \in Indices(logs)}))

\* C29: in every bucket of the error timeline, errors is the number of
\* error records of the bucket, total the number of its records, and the
\* error rate is errors/total x 100, never above 100.
C29_ErrorTimelineCounts ==
    metric_call.op = "get_error_timeline" =>
        \A k \in 1..Len(metric_call.result) :
            LET bucket == metric_call.result[k]
                rows == RowsIn(logs, bucket.timestamp, metric_call.interval)
            IN /\ bucket.total = Len(rows)
               /\ bucket.errors = CountOf(rows, {r \in RowsOf(logs) : GetMessageType(r.message) = "error"})
               /\ bucket.error_rate = (bucket.errors * 100) \div bucket.total
               /\ bucket.error_rate <= 100

RECURSIVE SumOf(_, _)
SumOf(buckets, counter) == IF buckets = <<>> THEN 0 ELSE Head(buckets)[counter] + SumOf(Tail(buckets), counter)

TypeOfCounter(counter) ==
    CASE counter = "requests" -> "request"
      [] counter = "responses" -> "response"
      [] counter = "notifications" -> "notification"
      [] counter = "errors" -> "error"

\* C30: for every interval, each counter of the timeseries summed over the
\* buckets is the number of records of that type.
C30_BucketSumsMatchCounts ==
    metric_call.op = "get_timeseries_metrics" =>
        \A counter \in {"requests", "responses", "notifications", "errors"} :
            SumOf(metric_call.result, counter) = CountOf(logs, {r \in RowsOf(logs) : GetMessageType(r.message) = TypeOfCounter(counter)})

(***************************************************************************)
(* The server name filter of the analytics: metadata LIKE                  *)
(* '%"server_name":"S"%' over the metadata text the capture engine and the *)
(* wrapper write with json.dumps (web/metrics.py, sniffer.py, wrapper.py)  *)
(***************************************************************************)
ServerNames == {"alpha", "beta"}

NoServer == "none"

Quoted(word) == "\"" \o word \o "\""

\* json.dumps of a dict: ", " between the items and ": " between a key and
\* its value
RECURSIVE DumpItems(_)
DumpItems(items) ==
    IF items = <<>> THEN <<>>
    ELSE <<Quoted(Head(items)[1]), ":", " ", Head(items)[2]>>
             \o (IF Len(items) > 1 THEN <<",", " ">> ELSE <<>>) \o DumpItems(Tail(items))

DumpsDict(items) == <<"{">> \o DumpItems(items) \o <<"}">>

ServerItems(server) ==
    IF server = NoServer THEN <<>>
    ELSE <<<<"server_name", Quoted(server)>>, <<"server_version", Quoted("1.0")>>>>

\* the metadata column packet_callback writes: none for an empty dict
SnifferMetadata(server) == IF ServerItems(server) = <<>> THEN <<>> ELSE DumpsDict(ServerItems(server))

\* the metadata column _log_jsonrpc_message writes
WrapperMetadata(server) ==
    DumpsDict(<<<<"wrapper", "true">>, <<"command", "[]">>, <<"direction", Quoted("recv")>>>> \o ServerItems(server))

\* the LIKE pattern between the two % of the analytics query
ServerNamePattern(server_name) == <<Quoted("server_name"), ":", Quoted(server_name)>>

\* metadata LIKE ?: a NULL column matches nothing
MetadataLike(metadata_text, server_name) == metadata_text # <<>> /\ Contains(metadata_text, ServerNamePattern(server_name))

\* the rows of the query with the server name filter
ServerRows(table, server_name) == Filter(table, {r \in RowsOf(table) : MetadataLike(r.metadata, server_name)})

\* get_timeseries_metrics(server_name=...)
GetTimeseriesMetricsOf(table, interval, server_name) == GetTimeseriesMetrics(ServerRows(table, server_name), interval)

CallTimeseriesOf(interval, server_name) ==
    /\ metric_call' = [op |-> "get_timeseries_metrics", interval |-> interval, server_name |-> server_name,
                       result |-> GetTimeseriesMetricsOf(logs, interval, server_name)]
    /\ UNCHANGED <<logs, now, store_call, query_call>>

\* a row with the server its writer knew and the metadata column written
ServerRow(log_id, timestamp, message, server, metadata_text) ==
    [log_id |-> log_id, timestamp |-> timestamp, message |-> message, transport_type |-> STREAMABLE_HTTP,
     server |-> server, metadata |-> metadata_text]

CapturedRows ==
    {ServerRow(Len(logs) + 1, now, IdMessage(m, RpcId), server, SnifferMetadata(server)) :
         m \in {RequestMessage, ResponseMessage}, server \in ServerNames \cup {NoServer}}

WrappedRows ==
    {ServerRow(Len(logs) + 1, now, IdMessage(m, RpcId), server, WrapperMetadata(server)) :
         m \in {RequestMessage, ResponseMessage}, server \in ServerNames \cup {NoServer}}

InitServerFilter == OtherStart /\ StoreStart

NextServerFilter ==
    \/ \E entry \in CapturedRows : LogMessage(entry)
    \/ \E entry \in WrappedRows : LogMessage(entry)
    \/ \E server_name \in ServerNames : CallTimeseriesOf(1, server_name)

SpecServerFilter == InitServerFilter /\ [][NextServerFilter /\ UNCHANGED <<hubVars, capVars, bufVars, wrapVars, lifeVars, regVars, exclVars, clsVars, mcpVars, drainVars>>]_vars

\* C31: the timeseries filtered by server name S counts exactly the records
\* whose writer recorded server_name = S in the metadata.
C31_ServerFilterCountsServerRecords ==
    metric_call.op = "get_timeseries_metrics" =>
        metric_call.result = GetTimeseriesMetrics(Filter(logs, {r \in RowsOf(logs) : r.server = metric_call.server_name}), metric_call.interval)

(***************************************************************************)
(* The query server on its HTTP transport: handle_mcp_request and          *)
(* handle_call_tool (mcp_server/server.py)                                 *)
(***************************************************************************)
INVALID_PARAMS == -32602
METHOD_NOT_FOUND == -32601
INTERNAL_ERROR == -32603

NoHeader == "none"

\* the values uuid4 draws, and the values a client sends in X-Session-Id
Uuids == {"uuid-1", "uuid-2"}

SessionIds == {"test-session"} \cup Uuids

Methods == {"initialize", "tools/list", "tools/call", "ping"}

Tools == {"query_traffic", "get_log", "search_traffic", "get_stats", "list_methods"}

ToolNames == {"get_stats", "no_such_tool"}

\* handle_call_tool: the content it returns, or "raise" when the tool raises
HandleCallTool(name, raises) ==
    IF name \in Tools THEN (IF raises THEN "raise" ELSE "content")
    ELSE "Unknown tool"

HttpResponse(kind, code, message) == [response |-> kind, code |-> code, message |-> message]

\* session_id not in sessions
SessionUnchecked(table, session_id) == TRUE

SessionInitialized(table, session_id) == session_id \in table

\* the response of handle_mcp_request
McpResponse(method, has_id, session_id, tool, raises) ==
    IF ~has_id THEN HttpResponse("no_content", 0, "")
    ELSE IF method = "initialize" THEN HttpResponse("result", 0, "")
    ELSE IF method = "tools/list"
    THEN (IF ~SessionInitialized(sessions, session_id) THEN HttpResponse("error", INVALID_PARAMS, "Session not initialized")
          ELSE HttpResponse("result", 0, "tools"))
    ELSE IF method = "tools/call"
    THEN (IF ~SessionInitialized(sessions, session_id) THEN HttpResponse("error", INVALID_PARAMS, "Session not initialized")
          ELSE IF HandleCallTool(tool, raises) = "raise" THEN HttpResponse("error", INTERNAL_ERROR, "Internal error")
          ELSE HttpResponse("result", 0, HandleCallTool(tool, raises)))
    ELSE HttpResponse("error", METHOD_NOT_FOUND, "Unknown method")

\* handle_mcp_request for one POST /mcp; uuid is the value uuid4 draws for a
\* request without the header
HandleMcpRequest(method, has_id, header, tool, raises, uuid) ==
    LET session_id == IF header = NoHeader THEN uuid ELSE header
        answer == McpResponse(method, has_id, session_id, tool, raises)
    IN /\ sessions' = IF has_id /\ method = "initialize" THEN sessions \cup {session_id} ELSE sessions
       /\ initialized' = IF method = "initialize" /\ answer.response = "result" THEN initialized \cup {session_id} ELSE initialized
       /\ http_call' = [method |-> method, has_id |-> has_id, header |-> header, session_id |-> session_id,
                        tool |-> tool, response |-> answer.response, code |-> answer.code, message |-> answer.message]

InitMcpHttp == OtherStart /\ StoreStart

\* uuid4 is drawn for a request without the header, and is a value that is no
\* session id in use
NextMcpHttp ==
    \E method \in Methods : \E has_id \in BOOLEAN : \E header \in SessionIds \cup {NoHeader} :
        \E tool \in ToolNames : \E raises \in BOOLEAN : \E uuid \in (IF header = NoHeader THEN Uuids \ sessions ELSE {NoHeader}) :
            HandleMcpRequest(method, has_id, header, tool, raises, uuid)

SpecMcpHttp == InitMcpHttp /\ [][NextMcpHttp /\ UNCHANGED <<hubVars, capVars, bufVars, wrapVars, lifeVars, regVars, exclVars, clsVars, storeVars, drainVars>>]_vars

\* C32: a tools/list or tools/call request gets a result only if its
\* session header names a session an initialize request was answered for;
\* otherwise it gets the error 'Session not initialized'.
C32_ToolsNeedInitializedSession ==
    http_call.method \in {"tools/list", "tools/call"} /\ http_call.has_id =>
        /\ http_call.response = "result" => http_call.header # NoHeader /\ http_call.header \in initialized
        /\ ~(http_call.header # NoHeader /\ http_call.header \in initialized) =>
               http_call.response = "error" /\ http_call.message = "Session not initialized"

C32_Witness ==
    /\ http_call.method = "tools/call" /\ http_call.has_id
    /\ http_call.response = "result"
    /\ initialized # {}
    /\ http_call.header \in initialized

\* C33: a tools/call request that names a tool that does not exist is
\* answered with an error response, not with a result.
C33_UnknownToolIsError ==
    http_call.method = "tools/call" /\ http_call.has_id /\ http_call.tool \notin Tools =>
        http_call.response = "error"

(***************************************************************************)
(* Standalone "data: " payloads in process_packet (tcp_reassembly.py)      *)
(***************************************************************************)
\* payload.startswith(b"data: ") and b"jsonrpc" in payload
IsStandaloneData(payload) == Head(payload) = DATA /\ ContainsJsonRpc(payload)

\* the stream of the packet's connection before the packet, a new one when
\* the connection has none
StreamBefore(pkt) ==
    IF StreamKey(pkt.src, pkt.dst) \in DOMAIN streams THEN streams[StreamKey(pkt.src, pkt.dst)] ELSE NewStream

\* the connection of the packet is known to be SSE: its response headers
\* said text/event-stream, or the tracker holds http_sse for it
KnownSse(pkt) ==
    \/ StreamBefore(pkt).response_headers # "None" /\ StreamBefore(pkt).is_sse
    \/ GetTransport(transport_tracker, pkt.src, pkt.dst) = HTTP_SSE

\* C34: a payload beginning "data: " is taken for an SSE continuation only
\* on a connection known to be SSE, and there it is appended to the buffer
\* of the connection: the bytes buffered before are kept.
C34_DataAppendedOnSseOnly ==
    [][\A pkt \in Packets :
          Capture(pkt) /\ IsStandaloneData(pkt.payload) =>
              /\ ~KnownSse(pkt) => emitted' = emitted
              /\ KnownSse(pkt) =>
                     streams'[StreamKey(pkt.src, pkt.dst)].buffer
                         = ExtractSseMessages(AddResponseData(StreamBefore(pkt), pkt.payload).stream).stream.buffer]_vars

\* the rows packet_callback has written for the packet of the step
NewRecords == SubSeq(records', Len(records) + 1, Len(records'))

\* C35: a message carried in one packet gives one stored record, also when
\* the reassembler and the direct extraction both recognise it: no packet
\* adds a row through each of the two paths for the same message.
C35_OneRecordPerPacketMessage ==
    [][\A i, j \in 1..Len(NewRecords) :
          NewRecords[i].via = "reassembler" /\ NewRecords[j].via = "direct" => NewRecords[i].message # NewRecords[j].message]_vars

\* C36: once a record of a connection carries a transport that is not
\* unknown, no later record of the connection carries unknown.
C36_TransportStaysKnown ==
    \A i, j \in 1..Len(records) :
        (i < j /\ StreamKey(records[i].src, records[i].dst) = StreamKey(records[j].src, records[j].dst)
               /\ records[i].transport_type # UNKNOWN)
            => records[j].transport_type # UNKNOWN

\* the stream add_response_data gives for the payload of a response on a
\* stream that has parsed no response yet: the headers of that response
OwnHeaders(payload) == AddResponseData(NewStream, payload).stream

\* the packet is a response that follows a request on its connection
ResponseAfterRequest(pkt) ==
    /\ Head(pkt.payload) \in ResponseHeads
    /\ StreamBefore(pkt).request_method # "None"
    /\ StreamBefore(pkt).buffer = <<>>

\* C37: while the body of a response is processed, is_sse, is_chunked and
\* content_length of the stream are those of the headers of that response,
\* also when it is not the first response of the connection.
C37_ResponseUsesOwnHeaders ==
    [][\A pkt \in Packets :
          Capture(pkt) /\ ResponseAfterRequest(pkt) /\ ~crashed' =>
              /\ streams'[StreamKey(pkt.src, pkt.dst)].is_sse = OwnHeaders(pkt.payload).is_sse
              /\ streams'[StreamKey(pkt.src, pkt.dst)].is_chunked = OwnHeaders(pkt.payload).is_chunked
              /\ streams'[StreamKey(pkt.src, pkt.dst)].content_length = OwnHeaders(pkt.payload).content_length]_vars

\* C38: only the server side of a connection is entered in the table of
\* http_sse server endpoints: no client endpoint is ever a key of it.
C38_OnlyServersRegistered == \A c \in Clients : c \notin DOMAIN transport_tracker.http_sse_servers

(***************************************************************************)
(* The stdout thread and the main thread of the wrapper when the child     *)
(* exits: MCPWrapper.start and MCPWrapper._forward_stdout (wrapper.py)     *)
(***************************************************************************)
MaxDrain == 4

\* the bytes of a child that writes JSON-RPC lines
DrainBytes == {"{", "req", "}", LF}

\* the child writes one byte into the pipe of its stdout
ChildWrites(byte) ==
    /\ child = "running"
    /\ Len(child_stdout) < MaxDrain
    /\ child_stdout' = Append(child_stdout, byte)
    /\ UNCHANGED <<forwarded, stdout_buffer, stdio_records, pendingcr, stdout_thread, lifeVars, drainVars>>

\* the while condition of _forward_stdout
LoopTest ==
    /\ wrapper # "exited"
    /\ stdout_thread = "looping"
    /\ stdout_thread' = (IF running THEN "reading" ELSE "stopped")
    /\ UNCHANGED <<child_stdout, forwarded, stdout_buffer, stdio_records, pendingcr, lifeVars, drainVars>>

\* proc.stdout.read(1) and the rest of the loop body: the next byte of the
\* pipe is forwarded and scanned; at the end of the pipe of a child that has
\* exited read returns '' and the loop ends; otherwise read blocks
ReadOne ==
    /\ wrapper # "exited"
    /\ stdout_thread = "reading"
    /\ IF nread < Len(child_stdout)
       THEN /\ Forwarded(ForwardChars(Loop(forwarded, stdout_buffer, stdio_records), TextRead(child_stdout[nread + 1], pendingcr), TRUE))
            /\ pendingcr' = (child_stdout[nread + 1] = CR)
            /\ nread' = nread + 1
            /\ stdout_thread' = "looping"
       ELSE /\ child = "exited"
            /\ stdout_thread' = "stopped"
            /\ UNCHANGED <<forwarded, stdout_buffer, stdio_records, pendingcr, nread>>
    /\ UNCHANGED <<child_stdout, running, lifeVars>>

\* proc.wait() returns in start(), which sets running to False and sleeps
WaitDone ==
    /\ wrapper = "waiting"
    /\ child = "exited"
    /\ running' = FALSE
    /\ wrapper' = "sleeping"
    /\ UNCHANGED <<child, returncode, exit_status, child_signals, signalled, wrapVars, nread>>

\* time.sleep(0.1) is over: start() returns the exit code, the wrap command
\* passes it to sys.exit, and the daemon threads end with the process
\* wherever they are (stdout_thread keeps where the thread was)
SleepDone ==
    /\ wrapper = "sleeping"
    /\ wrapper' = "exited"
    /\ exit_status' = returncode
    /\ UNCHANGED <<child, returncode, child_signals, signalled, wrapVars, drainVars>>

InitDrain == OtherStart /\ StoreStart

NextDrain ==
    \/ \E byte \in DrainBytes : ChildWrites(byte)
    \/ \E c \in ExitCodes : ChildExit(c) /\ UNCHANGED drainVars
    \/ LoopTest
    \/ ReadOne
    \/ WaitDone
    \/ SleepDone

SpecDrain == InitDrain /\ [][NextDrain /\ UNCHANGED <<hubVars, capVars, bufVars, regVars, exclVars, clsVars, storeVars, mcpVars>>]_vars

\* C39: when the wrapper has returned after the child's exit, every byte
\* the child wrote to its stdout has been forwarded and scanned for records;
\* stated here for the interleavings in which the stdout thread has left its
\* loop by itself before the wrapper returned.
C39_OutputDrainedBeforeReturn ==
    wrapper = "exited" /\ stdout_thread = "stopped" =>
        /\ forwarded = child_stdout
        /\ stdio_records = ForwardChars(Loop(<<>>, <<>>, <<>>), child_stdout, TRUE).records

\* C40: once a publish has finished, every subscriber that was registered
\* when it started and is still open (it has not disconnected and no send
\* to it has failed) has received the record, whatever other subscribers
\* did during the publish.
C40_ConnectedSubscriberReceives ==
    \A r \in Records : \A s \in Subscribers :
        (task[r].pc = "done" /\ s <= nstart[r] /\ ws_state[s] = "open") => r \in Range(received[s])

====
